---------------------------- MODULE Spec2Model ----------------------------
(***************************************************************************)
(* Verification model of the correlation cache (alarm_cache.py) and the    *)
(* lifecycle synchronizer (alarm_lifecycle.py) of Nokia-kafka-python.      *)
(*                                                                         *)
(* Python dicts are modelled as insertion-ordered sequences of entries     *)
(* [k |-> key, v |-> value].  A value stored in the cache is a reference:  *)
(* every cache operator takes the reference it stores and a function H     *)
(* giving the fields of the referenced object at the time of the call.     *)
(* The durable store is PostgreSQL at its default isolation level (READ    *)
(* COMMITTED): a transaction's writes are pending until commit, and a      *)
(* statement that touches a row written by an open transaction waits.      *)
(***************************************************************************)
EXTENDS Naturals, Integers, Sequences, FiniteSets, TLC

(***************************************************************************)
(* Values                                                                  *)
(***************************************************************************)
\* Python None: the result of dict.get on a missing key.
None == "<None>"

\* `not x` for the strings and None the handler tests.
Falsy(x) == x = None \/ x = ""

\* Keys of the durable active table.
AlarmIds == {"A1", "A2"}

\* Orders in which a scan of active_alarms can return its rows: the queries
\* have no ORDER BY, so the rows come as they lie in the table.
ScanOrders == {<<"A1", "A2">>, <<"A2", "A1">>}

\* Field values of the alarm dicts handed to handle_alarm_lifecycle.
EventIdValues == {"A1", None, ""}
EventTypeValues == {"alarm-create", "alarm-change", "alarm-delete", "alarm-other", None}
SeverityValues == {"CLEAR", "MAJOR", "MINOR"}
AlarmNameValues == {"Power Issue", "Loss of signal - OCH", None}
NeNameValues == {"NE1", None}
ObjectTypeValues == {"PHYSICALCONNECTION", "PORT"}

\* The normalized alarm dicts (normalize_alarm's output, restricted to the
\* fields the cache and the lifecycle handler read).
Events ==
    [alarm_id : EventIdValues, event_type : EventTypeValues,
     severity : SeverityValues, alarm_name : AlarmNameValues,
     ne_name : NeNameValues, object_type : ObjectTypeValues]

(***************************************************************************)
(* Python dict, insertion ordered                                          *)
(***************************************************************************)
EmptyDict == << >>

DictKeys(d) == {d[i].k : i \in 1..Len(d)}

DictHas(d, key) == key \in DictKeys(d)

\* d[key]
DictGet(d, key) == d[CHOOSE i \in 1..Len(d) : d[i].k = key].v

\* d[key] = val : overwrite in place, or append a new entry.
DictSet(d, key, val) ==
    IF DictHas(d, key)
    THEN [i \in 1..Len(d) |-> IF d[i].k = key THEN [k |-> key, v |-> val] ELSE d[i]]
    ELSE Append(d, [k |-> key, v |-> val])

\* d.pop(key, None)
DictPop(d, key) == SelectSeq(d, LAMBDA e : e.k # key)

\* list(d.values())
DictValues(d) == [i \in 1..Len(d) |-> d[i].v]

\* {H[a]["alarm_id"]: a for a in alarms}
RECURSIVE DictFromAlarms(_, _)
DictFromAlarms(alarms, H) ==
    IF alarms = << >> THEN EmptyDict
    ELSE LET n == Len(alarms)
             a == alarms[n]
         IN  DictSet(DictFromAlarms(SubSeq(alarms, 1, n - 1), H), H[a].alarm_id, a)

(***************************************************************************)
(* AlarmCache (alarm_cache.py).  The two mappings are passed and returned  *)
(* explicitly; each operator is the body of one `with self._lock` block.   *)
(***************************************************************************)
IsPowerIssue(alarm) ==
    alarm.alarm_name = "Power Issue" /\ alarm.object_type = "PHYSICALCONNECTION"

IsLosAlarm(alarm) ==
    alarm.alarm_name = "Loss of signal - OCH" /\ alarm.severity \in {"CRITICAL", "MAJOR"}

load_power_issues(alarms, H) == DictFromAlarms(alarms, H)

load_los_alarms(alarms, H) == DictFromAlarms(alarms, H)

get_power_issues(power) == DictValues(power)

get_los_alarms(los) == DictValues(los)

\* add_or_update with the object_type test of line 46 left out.
AddOrUpdateIgnoresObjectType(power, los, ref, H) ==
    LET alarm == H[ref]
        alarm_id == alarm.alarm_id
    IN  [power |-> IF alarm.alarm_name = "Power Issue"
                   THEN DictSet(power, alarm_id, ref) ELSE power,
         los   |-> IF IsLosAlarm(alarm) THEN DictSet(los, alarm_id, ref) ELSE los]

\* add_or_update with the severity test of line 49 left out.
AddOrUpdateIgnoresSeverity(power, los, ref, H) ==
    LET alarm == H[ref]
        alarm_id == alarm.alarm_id
    IN  [power |-> IF IsPowerIssue(alarm) THEN DictSet(power, alarm_id, ref) ELSE power,
         los   |-> IF alarm.alarm_name = "Loss of signal - OCH"
                   THEN DictSet(los, alarm_id, ref) ELSE los]

add_or_update(power, los, ref, H) ==
    LET alarm == H[ref]
        alarm_id == alarm.alarm_id
    IN  [power |-> IF IsPowerIssue(alarm) THEN DictSet(power, alarm_id, ref) ELSE power,
         los   |-> IF IsLosAlarm(alarm) THEN DictSet(los, alarm_id, ref) ELSE los]

\* remove with the pop of line 55 left out.
RemoveFromPowerOnly(power, los, alarm_id) ==
    [power |-> DictPop(power, alarm_id), los |-> los]

remove(power, los, alarm_id) ==
    [power |-> DictPop(power, alarm_id), los |-> DictPop(los, alarm_id)]

\* An object that nobody mutates is its own reference.
Obj(alarm) == alarm :> alarm

(***************************************************************************)
(* JSON documents and the SQL of alarm_lifecycle.py                        *)
(***************************************************************************)
JsonNull == <<"null">>

JsonString(s) == <<"string", s>>

\* json.dumps(alarm, default=str) followed by the ::jsonb cast: a document
\* with one member per key, None written as null.
JsonDumps(alarm) ==
    [f \in DOMAIN alarm |-> IF alarm[f] = None THEN JsonNull ELSE JsonString(alarm[f])]

\* The dict psycopg2 builds from a jsonb column.
JsonLoads(doc) ==
    [f \in DOMAIN doc |-> IF doc[f] = JsonNull THEN None ELSE doc[f][2]]

\* SQL NULL, and the ->> operator (member as text; NULL for null or missing).
SqlNull == "<NULL>"

JsonText(doc, f) ==
    IF f \in DOMAIN doc /\ doc[f] # JsonNull THEN doc[f][2] ELSE SqlNull

\* No row of active_alarms under a key; cur.fetchone() returning None.
NoRow == [absent |-> TRUE]

\* The pending effect of one statement inside an open transaction.
UPSERT_ACTIVE_SQL(alarm_id, doc) == [op |-> "upsert", alarm_id |-> alarm_id, alarm |-> doc]

DELETE_ACTIVE_SQL(alarm_id) == [op |-> "delete", alarm_id |-> alarm_id, alarm |-> NoRow]

INSERT_HISTORY_SQL(alarm_id, doc) == [op |-> "history", alarm_id |-> alarm_id, alarm |-> doc]

\* ApplyActive for an upsert written ON CONFLICT DO NOTHING: a row that
\* exists keeps its payload.
RECURSIVE ApplyActiveDoNothing(_, _)
ApplyActiveDoNothing(writes, table) ==
    IF writes = << >> THEN table
    ELSE LET wr == Head(writes)
             t  == IF wr.op = "upsert" /\ table[wr.alarm_id] = NoRow
                   THEN [table EXCEPT ![wr.alarm_id] = wr.alarm]
                   ELSE IF wr.op = "delete" THEN [table EXCEPT ![wr.alarm_id] = NoRow]
                   ELSE table
         IN  ApplyActiveDoNothing(Tail(writes), t)

\* The tables after the statements of a transaction take effect, in order.
RECURSIVE ApplyActive(_, _)
ApplyActive(writes, table) ==
    IF writes = << >> THEN table
    ELSE LET wr == Head(writes)
             t  == IF wr.op = "upsert" THEN [table EXCEPT ![wr.alarm_id] = wr.alarm]
                   ELSE IF wr.op = "delete" THEN [table EXCEPT ![wr.alarm_id] = NoRow]
                   ELSE table
         IN  ApplyActive(Tail(writes), t)

RECURSIVE ApplyHistory(_, _)
ApplyHistory(writes, hist) ==
    IF writes = << >> THEN hist
    ELSE LET wr == Head(writes)
             h  == IF wr.op = "history"
                   THEN Append(hist, [alarm_id |-> wr.alarm_id, alarm |-> wr.alarm])
                   ELSE hist
         IN  ApplyHistory(Tail(writes), h)

\* The rows a scan of the table finds, as keys in the order of the scan.
ScanRows(table, order) == SelectSeq(order, LAMBDA id : table[id] # NoRow)

get_active_power_issues(table, order) ==
    LET hits == SelectSeq(ScanRows(table, order),
                    LAMBDA id : JsonText(table[id], "alarm_name") = "Power Issue"
                                /\ JsonText(table[id], "object_type") = "PHYSICALCONNECTION")
    IN  [i \in 1..Len(hits) |-> JsonLoads(table[hits[i]])]

get_active_los_alarms(table, order) ==
    LET hits == SelectSeq(ScanRows(table, order),
                    LAMBDA id : JsonText(table[id], "alarm_name") = "Loss of signal - OCH"
                                /\ JsonText(table[id], "severity") \in {"CRITICAL", "MAJOR"})
    IN  [i \in 1..Len(hits) |-> JsonLoads(table[hits[i]])]

\* The identity view of a list of freshly built dicts: each is its own reference.
ObjAll(alarms) == [a \in {alarms[i] : i \in 1..Len(alarms)} |-> a]

(***************************************************************************)
(* Timestamp conversion of alarm_normalizer.py                              *)
(***************************************************************************)
\* Python values a timestamp field of a notification can hold.  A number is
\* held as whole days of 86400000 plus a remainder, days * 86400000 + ms
\* with 0 <= ms < 86400000, or is huge: its days lie outside -Window..Window,
\* beyond anything datetime accepts.  A str is a sequence of characters
\* repeated `times` times; a list is known by its length.
PyNone == [type |-> "NoneType"]

MsPerDay == 86400000

Window == 4000000

Number(type, days, ms) ==
    IF days < 0 - Window \/ days > Window
    THEN [type |-> type, days |-> 0, ms |-> 0, huge |-> TRUE]
    ELSE [type |-> type, days |-> days, ms |-> ms, huge |-> FALSE]

PyIntAt(days, ms) == Number("int", days, ms)

PyInt(n) == PyIntAt(n \div MsPerDay, n % MsPerDay)

HugeInt == [type |-> "int", days |-> 0, ms |-> 0, huge |-> TRUE]

PyFloatAt(days, ms) == Number("float", days, ms)

PyFloat(n) == PyFloatAt(n \div MsPerDay, n % MsPerDay)

PyBool(b) == [type |-> "bool", v |-> b]

PyStr(chars, times) == [type |-> "str", chars |-> chars, times |-> times]

PyList(len) == [type |-> "list", len |-> len]

PyDict(items) == [type |-> "dict", items |-> items]

\* How a call ends.
Return(value) == [kind |-> "return", value |-> value]

Raise(exc) == [kind |-> "raise", value |-> exc]

\* Characters: two ASCII digits, a letter, the minus sign and SUPERSCRIPT
\* TWO, for which str.isdigit() is true and int() raises ValueError.
Chars == {"0", "5", "a", "-", "sup2"}

AsciiDigits == {"0", "5"}

OtherDigits == {"sup2"}

DigitValue == [c \in AsciiDigits |-> IF c = "0" THEN 0 ELSE 5]

\* str.isdigit()
isdigit(s) ==
    /\ s.chars # << >> /\ s.times > 0
    /\ \A i \in 1..Len(s.chars) : s.chars[i] \in AsciiDigits \cup OtherDigits

\* The int a sequence of ASCII digits writes, most significant first.
RECURSIVE Decimal(_)
Decimal(chars) ==
    IF chars = << >> THEN PyInt(0)
    ELSE LET x == Decimal(SubSeq(chars, 1, Len(chars) - 1))
             low == x.ms * 10 + DigitValue[chars[Len(chars)]]
         IN  IF x.huge THEN HugeInt
             ELSE PyIntAt(x.days * 10 + low \div MsPerDay, low % MsPerDay)

\* sys.get_int_max_str_digits() of Python 3.11
MaxStrDigits == 4300

\* More digits than any number inside the window has.
WindowDigits == 15

RECURSIVE Repeat(_, _)
Repeat(chars, times) == IF times = 0 THEN << >> ELSE chars \o Repeat(chars, times - 1)

\* int(s) for a str with s.isdigit(): ValueError for a digit that is no
\* ASCII digit and for more than MaxStrDigits digits; leading zeros count
\* as digits but not in the value.
int(s) ==
    LET nonzero == {i \in 1..Len(s.chars) : s.chars[i] # "0"}
        first   == CHOOSE i \in nonzero : \A j \in nonzero : i <= j
    IN  IF \E i \in 1..Len(s.chars) : s.chars[i] \in OtherDigits THEN Raise("ValueError")
        ELSE IF Len(s.chars) * s.times > MaxStrDigits THEN Raise("ValueError")
        ELSE IF nonzero = {} THEN Return(PyInt(0))
        ELSE IF (Len(s.chars) - first + 1) + Len(s.chars) * (s.times - 1) > WindowDigits
             THEN Return(HugeInt)
        ELSE Return(Decimal(Repeat(s.chars, s.times)))

\* bool(x), as `or` applies it
Truthy(x) ==
    CASE x.type = "NoneType" -> FALSE
      [] x.type = "int"      -> x.huge \/ x.days # 0 \/ x.ms # 0
      [] x.type = "float"    -> x.huge \/ x.days # 0 \/ x.ms # 0
      [] x.type = "bool"     -> x.v
      [] x.type = "str"      -> x.chars # << >> /\ x.times > 0
      [] x.type = "list"     -> x.len > 0
      [] x.type = "dict"     -> DOMAIN x.items # {}

\* dict.get(key, default)
get(d, key, default) == IF key \in DOMAIN d.items THEN d.items[key] ELSE default

\* x * 1000 for a number: huge stays huge, and what leaves the window
\* becomes huge.
Scaled(x) ==
    IF x.huge \/ x.days < -4001 \/ x.days > 4001
    THEN [type |-> x.type, days |-> 0, ms |-> 0, huge |-> TRUE]
    ELSE Number(x.type, x.days * 1000 + x.ms \div 86400, (x.ms % 86400) * 1000)

\* x * 1000
Times1000(x) ==
    CASE x.type \in {"int", "float"} -> Return(Scaled(x))
      [] x.type = "bool"  -> Return(PyInt(IF x.v THEN 1000 ELSE 0))
      [] x.type = "str"   -> Return(PyStr(x.chars, x.times * 1000))
      [] x.type = "list"  -> Return(PyList(x.len * 1000))
      [] OTHER            -> Raise("TypeError")

\* Lines 20-25 and 47-52: a dict gives its value, else its milliseconds,
\* else a thousand times its seconds, a missing seconds counting as 0.
FromDict(ts) ==
    IF ts.type # "dict" THEN Return(ts)
    ELSE IF Truthy(get(ts, "value", PyNone)) THEN Return(get(ts, "value", PyNone))
    ELSE IF Truthy(get(ts, "milliseconds", PyNone))
         THEN Return(get(ts, "milliseconds", PyNone))
    ELSE Times1000(get(ts, "seconds", PyInt(0)))

\* Lines 27-33 and 54-60: a str of digits becomes an int; what is then no
\* int or float makes the function return None.
FromStr(ts) ==
    IF ts.type = "str"
    THEN IF isdigit(ts) THEN int(ts) ELSE Return(PyNone)
    ELSE IF ts.type \in {"int", "float", "bool"} THEN Return(ts)
    ELSE Return(PyNone)

\* The number of milliseconds an int, float or bool inside the window
\* stands for: whole days and the rest.
Millis(ts) ==
    IF ts.type = "bool" THEN [days |-> 0, ms |-> IF ts.v THEN 1 ELSE 0]
    ELSE [days |-> ts.days, ms |-> ts.ms]

\* n / d rounded to the nearest integer, a half to the even one (n >= 0).
RoundHalfEven(n, d) ==
    LET q == n \div d
        r == n % d
    IN  IF 2 * r > d \/ (2 * r = d /\ q % 2 = 1) THEN q + 1 ELSE q

\* 2^m for the fraction bits that occur.
TwoTo(m) ==
    CASE m = 15 -> 32768
      [] m = 16 -> 65536
      [] m = 17 -> 131072
      [] m = 18 -> 262144
      [] m = 19 -> 524288

\* 2^33 .. 2^37 seconds as days and seconds of the day, each with the
\* number of fraction bits a float of that size and above has.
Binades ==
    << [bits |-> 19, days |-> 99420,   seconds |-> 46592],
       [bits |-> 18, days |-> 198841,  seconds |-> 6784],
       [bits |-> 17, days |-> 397682,  seconds |-> 13568],
       [bits |-> 16, days |-> 795364,  seconds |-> 27136],
       [bits |-> 15, days |-> 1590728, seconds |-> 54272] >>

\* The fraction bits of the float ts / 1000, for the instant of `days` days,
\* `sod` seconds and r milliseconds; 0 when it has 20 or more, which hold
\* every millisecond to less than half a microsecond.
FractionBits(days, sod, r) ==
    LET mag   == IF days >= 0 THEN [days |-> days, seconds |-> sod]
                 ELSE IF sod > 0 THEN [days |-> 0 - days - 1, seconds |-> 86400 - sod]
                 ELSE [days |-> 0 - days, seconds |-> 0]
        whole == days >= 0 \/ r = 0
        above == {i \in 1..Len(Binades) :
                     \/ mag.days > Binades[i].days
                     \/ mag.days = Binades[i].days /\ mag.seconds > Binades[i].seconds
                     \/ mag.days = Binades[i].days /\ mag.seconds = Binades[i].seconds /\ whole}
    IN  IF above = {} THEN 0
        ELSE Binades[CHOOSE i \in above : \A j \in above : j <= i].bits

\* The microseconds fromtimestamp reads from the float ts / 1000 (rounded
\* half to even), for r milliseconds past the second.
Microseconds(days, sod, r) ==
    LET m == FractionBits(days, sod, r)
    IN  IF m = 0 THEN r * 1000
        ELSE LET k    == RoundHalfEven(r * TwoTo(m), 1000)
                 unit == TwoTo(m) \div 64
             IN  (k \div unit) * 15625 + RoundHalfEven((k % unit) * 15625, unit)

\* First and last day datetime holds: 0001-01-01 and 9999-12-31.
MinDay == -719162

MaxDay == 2932896

\* datetime.fromtimestamp(ts / 1000, tz=utc), utcfromtimestamp(ts / 1000):
\* the day, the second of the day and the microsecond.
FromTimestamp(t) ==
    LET sod  == t.ms \div 1000
        us   == Microseconds(t.days, sod, t.ms % 1000)
        secs == IF us = 1000000 THEN sod + 1 ELSE sod
    IN  [days         |-> IF secs = 86400 THEN t.days + 1 ELSE t.days,
         seconds      |-> IF secs = 86400 THEN 0 ELSE secs,
         microseconds |-> IF us = 1000000 THEN 0 ELSE us]

\* Asia/Dhaka as pytz loads it: the 32-bit block of the zone file, which
\* starts at 1901-12-13T20:45:52Z, with every offset rounded to the minute.
\* The offset in seconds before the first change, and each change with the
\* UTC day and second it takes effect.
DhakaFirstOffset == 21720

DhakaChanges ==
    << [days |-> -24856, seconds |-> 74752, offset |-> 21180],
       [days |-> -10320, seconds |-> 65200, offset |-> 23400],
       [days |-> -10094, seconds |-> 63000, offset |-> 19800],
       [days |-> -9985,  seconds |-> 66600, offset |-> 23400],
       [days |-> -6669,  seconds |-> 63000, offset |-> 21600],
       [days |-> 14414,  seconds |-> 61200, offset |-> 25200],
       [days |-> 14609,  seconds |-> 61200, offset |-> 21600] >>

\* LOCAL_TZ.utcoffset at a UTC instant.
UtcOffset(dt) ==
    LET past == {i \in 1..Len(DhakaChanges) :
                    \/ dt.days > DhakaChanges[i].days
                    \/ dt.days = DhakaChanges[i].days /\ dt.seconds >= DhakaChanges[i].seconds}
    IN  IF past = {} THEN DhakaFirstOffset
        ELSE DhakaChanges[CHOOSE i \in past : \A j \in past : j <= i].offset

\* The offset as isoformat prints it.
ZoneText(offset) ==
    CASE offset = 21720 -> "+06:02"
      [] offset = 21180 -> "+05:53"
      [] offset = 23400 -> "+06:30"
      [] offset = 19800 -> "+05:30"
      [] offset = 21600 -> "+06:00"
      [] offset = 25200 -> "+07:00"

\* Lines 36-38: the UTC datetime dt in Asia/Dhaka, as isoformat prints it.
LocalIso(dt) ==
    LET offset == UtcOffset(dt)
        secs   == dt.seconds + offset
    IN  [days         |-> IF secs >= 86400 THEN dt.days + 1 ELSE dt.days,
         seconds      |-> IF secs >= 86400 THEN secs - 86400 ELSE secs,
         microseconds |-> dt.microseconds,
         zone         |-> ZoneText(offset)]

\* Line 63: the UTC datetime dt as isoformat prints it, and "Z".
UtcIso(dt) ==
    [days |-> dt.days, seconds |-> dt.seconds, microseconds |-> dt.microseconds,
     zone |-> "Z"]

\* Lines 17-33 and 44-60: the number to convert, or how the function ends
\* before the conversion.
EpochMillis(ts) ==
    IF ts.type = "NoneType" THEN Return(PyNone)
    ELSE LET d == FromDict(ts)
         IN  IF d.kind = "raise" THEN d ELSE FromStr(d.value)

\* Lines 35-40: an instant outside datetime's years, and a local time past
\* its last day, raise inside the try and give None.
utc_ms_to_local_iso(ts) ==
    LET n == EpochMillis(ts)
    IN  IF n.kind = "raise" \/ n.value.type = "NoneType" THEN n
        ELSE IF n.value.type # "bool" /\ n.value.huge THEN Return(PyNone)
        ELSE LET utc_dt == FromTimestamp(Millis(n.value))
             IN  IF utc_dt.days < MinDay \/ utc_dt.days > MaxDay THEN Return(PyNone)
                 ELSE IF LocalIso(utc_dt).days > MaxDay THEN Return(PyNone)
                 ELSE Return(LocalIso(utc_dt))

\* Lines 62-65.
epoch_ms_to_utc(ts) ==
    LET n == EpochMillis(ts)
    IN  IF n.kind = "raise" \/ n.value.type = "NoneType" THEN n
        ELSE IF n.value.type # "bool" /\ n.value.huge THEN Return(PyNone)
        ELSE LET utc_dt == FromTimestamp(Millis(n.value))
             IN  IF utc_dt.days < MinDay \/ utc_dt.days > MaxDay THEN Return(PyNone)
                 ELSE Return(UtcIso(utc_dt))

(***************************************************************************)
(* State                                                                   *)
(***************************************************************************)
VARIABLES
    active_alarms,        \* committed active_alarms table: alarm_id -> document or NoRow
    alarm_history,        \* committed alarm_history table: sequence of rows
    active_power_issues,  \* AlarmCache.active_power_issues
    active_los_alarms,    \* AlarmCache.active_los_alarms
    pc,                   \* per worker: position in handle_alarm_lifecycle
    alarm,                \* per worker: the alarm dict being handled
    row,                  \* per worker: the result of cur.fetchone()
    tx,                   \* per worker: pending statements of its open transaction
    calls,                \* per worker: store and cache calls issued by this invocation
    pre,                  \* per worker: tables and cache when the invocation began
    issued,               \* number of lifecycle events handed to the handler so far
    heap,                 \* dict objects a cache client shares with the cache
    held,                 \* the list the client got from its last snapshot call
    op,                   \* the client's last call on the cache
    conversion,           \* the last timestamp conversion: function, argument, outcome
    normalizing,          \* normalize_alarm: position, the two lists read, cache states so far
    lock,                 \* AlarmCache._lock: the thread holding it, or None
    startup,              \* main: position in the startup load, and the rows just queried
    process               \* full_flow_main: globals, main-thread call stack, calls made

vars == <<active_alarms, alarm_history, active_power_issues, active_los_alarms,
          pc, alarm, row, tx, calls, pre, issued, heap, held, op,
          conversion, normalizing, lock, startup, process>>

lifecycle == <<active_alarms, alarm_history, pc, alarm, row, tx, calls, pre, issued>>

client == <<heap, held, op>>

\* State of the other modules, which the lifecycle and the cache leave alone.
others == <<conversion, normalizing, lock, startup, process>>

store == <<active_alarms, alarm_history>>

cache == <<active_power_issues, active_los_alarms>>

Workers == {"w1", "w2"}

\* Events handed to the handler before the model stops taking more.
MaxEvents == 3

MaxSeqEvents == 2

\* Dict objects of a cache client: at most MaxObjs are alive at a time.
MaxObjs == 2

ObjIds == 1..MaxObjs

Free == [free |-> TRUE]

NoCall == [name |-> "none", arg |-> None]

\* main has loaded the cache and handed it to the consumer (line 137).
Consuming == [pc |-> "start_kafka_consumer", alarms |-> << >>]

NoProcess == [phase |-> "none"]

\* normalize_alarm is not running and has read nothing.
NotNormalizing ==
    [pc |-> "idle", power |-> << >>, los |-> << >>, instants |-> {}, mutations |-> 0,
     notifications |-> 0]

NoConversion == [fn |-> "none", arg |-> PyNone, out |-> Return(PyNone)]

\* What an invocation sees when it starts.
Snapshot ==
    [active |-> active_alarms, history |-> alarm_history,
     power |-> active_power_issues, los |-> active_los_alarms,
     issued |-> issued]

\* No invocation is running: no alarm dict, nothing seen.
NoAlarm == [handling |-> FALSE]

NoSnapshot == [taken |-> FALSE]

(***************************************************************************)
(* handle_alarm_lifecycle: the path an alarm dict takes                    *)
(***************************************************************************)
\* ReturnsBeforeUnit with the alarm-delete test of line 75 left out.
ReturnsBeforeUnitKeepsDelete(a) ==
    Falsy(a.alarm_id) \/ Falsy(a.event_type)

\* Lines 71-76: returns before any connection is opened.
ReturnsBeforeUnit(a) ==
    \/ Falsy(a.alarm_id) \/ Falsy(a.event_type)
    \/ a.event_type = "alarm-delete"

\* Line 83.
IsClear(a) == a.event_type = "alarm-change" /\ a.severity = "CLEAR"

\* Lines 100-105: returns from inside the unit without a statement.
ReturnsInUnit(a) ==
    \/ a.event_type \notin {"alarm-create", "alarm-change"}
    \/ Falsy(a.alarm_name) \/ Falsy(a.ne_name)

\* `row and row[0]` at line 90.
RowTruthy(r) == r # NoRow /\ DOMAIN JsonLoads(r) # {}

\* A row lock: w's open transaction has written the active row of alarm_id.
HoldsRow(w, alarm_id) ==
    \E i \in 1..Len(tx[w]) :
        tx[w][i].op \in {"upsert", "delete"} /\ tx[w][i].alarm_id = alarm_id

RowFree(w, alarm_id) == \A o \in Workers \ {w} : ~HoldsRow(o, alarm_id)

(***************************************************************************)
(* get_conn and handle_alarm_lifecycle, one action per step of a worker    *)
(***************************************************************************)
\* Lines 63-78: the handler is entered with alarm dict e.  It returns at once
\* (lines 71-76), or opens the connection of get_conn (line 21) and enters
\* the unit.
Call(w, e) ==
    /\ pc[w] = "idle"
    /\ alarm' = [alarm EXCEPT ![w] = e]
    /\ pre' = [pre EXCEPT ![w] = Snapshot]
    /\ issued' = issued + 1
    /\ IF ReturnsBeforeUnit(e)
       THEN /\ pc' = [pc EXCEPT ![w] = "returned"]
            /\ calls' = [calls EXCEPT ![w] = << >>]
       ELSE /\ pc' = [pc EXCEPT ![w] = "in_unit"]
            /\ calls' = [calls EXCEPT ![w] = <<"connect">>]
    /\ UNCHANGED <<store, cache, row, tx, client, others>>

\* Line 21 raises: psycopg2.connect fails outside the try block, so neither
\* rollback nor close runs and the exception leaves the handler.
ConnectFail(w, e) ==
    /\ pc[w] = "idle"
    /\ ~ReturnsBeforeUnit(e)
    /\ alarm' = [alarm EXCEPT ![w] = e]
    /\ pre' = [pre EXCEPT ![w] = Snapshot]
    /\ issued' = issued + 1
    /\ pc' = [pc EXCEPT ![w] = "raised"]
    /\ calls' = [calls EXCEPT ![w] = <<"connect">>]
    /\ UNCHANGED <<store, cache, row, tx, client, others>>

\* Evict with the cache call of line 85 left out.
EvictSkipsRemove(w) ==
    /\ pc[w] = "in_unit"
    /\ IsClear(alarm[w])
    /\ pc' = [pc EXCEPT ![w] = "evicted"]
    /\ UNCHANGED <<store, cache, alarm, row, tx, calls, pre, issued, client, others>>

\* ExecDelete on an autocommit connection: the DELETE is visible at once.
ExecDeleteAutocommit(w) ==
    /\ pc[w] = "evicted"
    /\ LET id == alarm[w].alarm_id
           found == active_alarms[id]
       IN  /\ found # NoRow => RowFree(w, id)
           /\ row' = [row EXCEPT ![w] = found]
           /\ active_alarms' = [active_alarms EXCEPT ![id] = NoRow]
    /\ pc' = [pc EXCEPT ![w] = "deleted"]
    /\ calls' = [calls EXCEPT ![w] = @ \o <<"execute DELETE_ACTIVE_SQL", "fetchone">>]
    /\ UNCHANGED <<alarm_history, cache, alarm, tx, pre, issued, client, others>>

\* Lines 83-85: a CLEAR evicts alarm_id from the cache first.
Evict(w) ==
    /\ pc[w] = "in_unit"
    /\ IsClear(alarm[w])
    /\ LET c == remove(active_power_issues, active_los_alarms, alarm[w].alarm_id)
       IN  /\ active_power_issues' = c.power
           /\ active_los_alarms' = c.los
    /\ pc' = [pc EXCEPT ![w] = "evicted"]
    /\ calls' = [calls EXCEPT ![w] = Append(@, "remove")]
    /\ UNCHANGED <<store, alarm, row, tx, pre, issued, client, others>>

\* Lines 87-88: DELETE ... RETURNING alarm, then fetchone.  The statement
\* waits while another open transaction holds the row; a key with no
\* committed row yields no row and takes no lock.
ExecDelete(w) ==
    /\ pc[w] = "evicted"
    /\ LET id == alarm[w].alarm_id
           found == active_alarms[id]
       IN  /\ found # NoRow => RowFree(w, id)
           /\ row' = [row EXCEPT ![w] = found]
           /\ tx' = [tx EXCEPT ![w] =
                        IF found # NoRow THEN Append(@, DELETE_ACTIVE_SQL(id)) ELSE @]
    /\ pc' = [pc EXCEPT ![w] = "deleted"]
    /\ calls' = [calls EXCEPT ![w] = @ \o <<"execute DELETE_ACTIVE_SQL", "fetchone">>]
    /\ UNCHANGED <<store, cache, alarm, pre, issued, client, others>>

\* Lines 90-95: the deleted payload, if any, goes to alarm_history; return.
ExecInsertHistory(w) ==
    /\ pc[w] = "deleted"
    /\ IF RowTruthy(row[w])
       THEN /\ tx' = [tx EXCEPT ![w] =
                        Append(@, INSERT_HISTORY_SQL(alarm[w].alarm_id,
                                                     JsonDumps(JsonLoads(row[w]))))]
            /\ calls' = [calls EXCEPT ![w] = Append(@, "execute INSERT_HISTORY_SQL")]
       ELSE UNCHANGED <<tx, calls>>
    /\ pc' = [pc EXCEPT ![w] = "exiting"]
    /\ UNCHANGED <<store, cache, alarm, row, pre, issued, client, others>>

\* Lines 100-105: an unknown event type or a missing alarm_name / ne_name
\* returns from inside the unit.
ReturnInUnit(w) ==
    /\ pc[w] = "in_unit"
    /\ ~IsClear(alarm[w])
    /\ ReturnsInUnit(alarm[w])
    /\ pc' = [pc EXCEPT ![w] = "exiting"]
    /\ UNCHANGED <<store, cache, alarm, row, tx, calls, pre, issued, client, others>>

\* Lines 108-111: INSERT ... ON CONFLICT DO UPDATE.  The statement waits
\* while another open transaction holds the row of alarm_id.
ExecUpsert(w) ==
    /\ pc[w] = "in_unit"
    /\ ~IsClear(alarm[w])
    /\ ~ReturnsInUnit(alarm[w])
    /\ RowFree(w, alarm[w].alarm_id)
    /\ tx' = [tx EXCEPT ![w] =
                Append(@, UPSERT_ACTIVE_SQL(alarm[w].alarm_id, JsonDumps(alarm[w])))]
    /\ pc' = [pc EXCEPT ![w] = "upserted"]
    /\ calls' = [calls EXCEPT ![w] = Append(@, "execute UPSERT_ACTIVE_SQL")]
    /\ UNCHANGED <<store, cache, alarm, row, pre, issued, client, others>>

\* Line 114: the cache upsert, issued inside the unit, before get_conn's commit.
CacheAddOrUpdate(w) ==
    /\ pc[w] = "upserted"
    /\ LET c == add_or_update(active_power_issues, active_los_alarms,
                              alarm[w], Obj(alarm[w]))
       IN  /\ active_power_issues' = c.power
           /\ active_los_alarms' = c.los
    /\ pc' = [pc EXCEPT ![w] = "exiting"]
    /\ calls' = [calls EXCEPT ![w] = Append(@, "add_or_update")]
    /\ UNCHANGED <<store, alarm, row, tx, pre, issued, client, others>>

\* get_conn lines 24 and 29: the with block was left without an exception;
\* commit makes the pending statements visible at once, then close.
Commit(w) ==
    /\ pc[w] = "exiting"
    /\ active_alarms' = ApplyActive(tx[w], active_alarms)
    /\ alarm_history' = ApplyHistory(tx[w], alarm_history)
    /\ tx' = [tx EXCEPT ![w] = << >>]
    /\ pc' = [pc EXCEPT ![w] = "returned"]
    /\ calls' = [calls EXCEPT ![w] = @ \o <<"commit", "close">>]
    /\ UNCHANGED <<cache, alarm, row, pre, issued, client, others>>

\* get_conn lines 24-29: commit raises; rollback, re-raise, close.
CommitFail(w) ==
    /\ pc[w] = "exiting"
    /\ tx' = [tx EXCEPT ![w] = << >>]
    /\ pc' = [pc EXCEPT ![w] = "raised"]
    /\ calls' = [calls EXCEPT ![w] = @ \o <<"commit", "rollback", "close">>]
    /\ UNCHANGED <<store, cache, alarm, row, pre, issued, client, others>>

\* The statement a worker in the unit is about to execute, or None.
NextStatement(w) ==
    IF pc[w] = "evicted" THEN "execute DELETE_ACTIVE_SQL"
    ELSE IF pc[w] = "deleted" /\ RowTruthy(row[w]) THEN "execute INSERT_HISTORY_SQL"
    ELSE IF pc[w] = "in_unit" /\ ~IsClear(alarm[w]) /\ ~ReturnsInUnit(alarm[w])
         THEN "execute UPSERT_ACTIVE_SQL"
    ELSE None

\* get_conn lines 25-29: cur.execute raises inside the unit; rollback drops
\* the pending statements, the exception is re-raised, close.
ExecFail(w) ==
    /\ NextStatement(w) # None
    /\ tx' = [tx EXCEPT ![w] = << >>]
    /\ pc' = [pc EXCEPT ![w] = "raised"]
    /\ calls' = [calls EXCEPT ![w] = @ \o <<NextStatement(w), "rollback", "close">>]
    /\ UNCHANGED <<store, cache, alarm, row, pre, issued, client, others>>

\* The invocation is over; the worker takes the next event.
Finish(w) ==
    /\ pc[w] \in {"returned", "raised"}
    /\ pc' = [pc EXCEPT ![w] = "idle"]
    /\ alarm' = [alarm EXCEPT ![w] = NoAlarm]
    /\ row' = [row EXCEPT ![w] = NoRow]
    /\ calls' = [calls EXCEPT ![w] = << >>]
    /\ pre' = [pre EXCEPT ![w] = NoSnapshot]
    /\ UNCHANGED <<store, cache, tx, issued, client, others>>

\* The steps of a worker inside an invocation.
Step(w) ==
    \/ Evict(w)
    \/ ExecDelete(w)
    \/ ExecInsertHistory(w)
    \/ ReturnInUnit(w)
    \/ ExecUpsert(w)
    \/ CacheAddOrUpdate(w)
    \/ Commit(w)
    \/ CommitFail(w)
    \/ ExecFail(w)
    \/ Finish(w)

(***************************************************************************)
(* Initial states: full_flow_main.py lines 131-135 seed the cache from the *)
(* store the previous run left behind.                                     *)
(***************************************************************************)
PowerIssueRecord(id) ==
    [alarm_id |-> id, event_type |-> "alarm-create", severity |-> "MAJOR",
     alarm_name |-> "Power Issue", ne_name |-> "NE1",
     object_type |-> "PHYSICALCONNECTION"]

LosRecord(id) ==
    [alarm_id |-> id, event_type |-> "alarm-change", severity |-> "MAJOR",
     alarm_name |-> "Loss of signal - OCH", ne_name |-> "NE1",
     object_type |-> "PORT"]

\* Contents of active_alarms at process start.
InitialTables ==
    { [id \in AlarmIds |-> NoRow],
      [id \in AlarmIds |-> IF id = "A2" THEN JsonDumps(LosRecord(id)) ELSE NoRow],
      [id \in AlarmIds |-> IF id = "A1" THEN JsonDumps(PowerIssueRecord(id))
                           ELSE JsonDumps(LosRecord(id))],
      [id \in AlarmIds |-> JsonDumps(LosRecord(id))] }

InitFrom(tables) ==
    /\ active_alarms \in tables
    /\ alarm_history = << >>
    /\ \E order \in ScanOrders :
          active_power_issues =
             LET alarms == get_active_power_issues(active_alarms, order)
             IN  load_power_issues(alarms, ObjAll(alarms))
    /\ \E order \in ScanOrders :
          active_los_alarms =
             LET alarms == get_active_los_alarms(active_alarms, order)
             IN  load_los_alarms(alarms, ObjAll(alarms))
    /\ pc = [w \in Workers |-> "idle"]
    /\ alarm = [w \in Workers |-> NoAlarm]
    /\ row = [w \in Workers |-> NoRow]
    /\ tx = [w \in Workers |-> << >>]
    /\ calls = [w \in Workers |-> << >>]
    /\ pre = [w \in Workers |-> NoSnapshot]
    /\ issued = 0
    /\ heap = [o \in ObjIds |-> Free]
    /\ held = << >>
    /\ op = NoCall

\* The other modules have done nothing yet.
InitConversion == conversion = NoConversion

InitNormalizer == normalizing = NotNormalizing

\* The cache lock is free and the startup load is over.
InitLocking == lock = None /\ startup = Consuming

\* The process globals of full_flow_main.py are not modelled yet.
InitProcess == process = NoProcess

InitOthers == InitConversion /\ InitNormalizer /\ InitLocking /\ InitProcess

Init == InitFrom(InitialTables) /\ InitOthers

\* Concurrent workers, one per event, on well-formed Power Issue events for
\* one alarm_id; every store unit commits.
ConcurrentEvents ==
    {e \in Events : /\ e.alarm_id = "A1"
                    /\ e.event_type \in {"alarm-create", "alarm-change"}
                    /\ e.alarm_name = "Power Issue" /\ e.ne_name = "NE1"
                    /\ e.object_type = "PHYSICALCONNECTION"}

Next ==
    \E w \in Workers :
        \/ \E e \in ConcurrentEvents : issued < MaxEvents /\ Call(w, e)
        \/ Evict(w)
        \/ ExecDelete(w)
        \/ ExecInsertHistory(w)
        \/ ExecUpsert(w)
        \/ CacheAddOrUpdate(w)
        \/ Commit(w)
        \/ Finish(w)

Spec == Init /\ [][Next]_vars

\* One worker: the events are handled one after the other, any shape.
SeqWorker == "w1"

NextSeq ==
    \/ \E e \in Events : issued < MaxSeqEvents /\ Call(SeqWorker, e)
    \/ \E e \in Events : issued < MaxSeqEvents /\ ConnectFail(SeqWorker, e)
    \/ Step(SeqWorker)

SpecSeq == Init /\ [][NextSeq]_vars

(***************************************************************************)
(* The AlarmCache API driven by one client that never assigns to a record  *)
(* it has passed in or got back: every record is its own reference.        *)
(***************************************************************************)
\* Records a client passes to the cache: every alarm name with the values
\* of the field its category predicate reads.
CacheRecords ==
    {r \in [alarm_id : AlarmIds,
            alarm_name : {"Power Issue", "Loss of signal - OCH"},
            object_type : {"PHYSICALCONNECTION", "PORT"},
            severity : {"CRITICAL", "MAJOR", "MINOR"}] :
        /\ r.alarm_name = "Power Issue" => r.severity = "MAJOR"
        /\ r.alarm_name = "Loss of signal - OCH" => r.object_type = "PORT"}

\* Longest list handed to a loader.
MaxLoad == 2

\* Lists handed to a loader: rows of a query on active_alarms, whose key
\* alarm_id is unique.
LoadLists ==
    {recs \in UNION {[1..n -> CacheRecords] : n \in 0..MaxLoad} :
        \A i, j \in 1..Len(recs) : i # j => recs[i].alarm_id # recs[j].alarm_id}

\* ClientLoadPowerIssues for a loader that merges into the dict it has.
ClientLoadPowerIssuesMerges(recs) ==
    /\ active_power_issues' =
          SelectSeq(active_power_issues,
                    LAMBDA e : \A i \in 1..Len(recs) : recs[i].alarm_id # e.k)
          \o load_power_issues(recs, ObjAll(recs))
    /\ op' = [name |-> "load_power_issues", arg |-> recs]
    /\ UNCHANGED <<active_los_alarms, lifecycle, heap, held, others>>

ClientLoadPowerIssues(recs) ==
    /\ active_power_issues' = load_power_issues(recs, ObjAll(recs))
    /\ op' = [name |-> "load_power_issues", arg |-> recs]
    /\ UNCHANGED <<active_los_alarms, lifecycle, heap, held, others>>

ClientLoadLosAlarms(recs) ==
    /\ active_los_alarms' = load_los_alarms(recs, ObjAll(recs))
    /\ op' = [name |-> "load_los_alarms", arg |-> recs]
    /\ UNCHANGED <<active_power_issues, lifecycle, heap, held, others>>

ClientAddOrUpdate(rec) ==
    /\ LET c == add_or_update(active_power_issues, active_los_alarms, rec, Obj(rec))
       IN  /\ active_power_issues' = c.power
           /\ active_los_alarms' = c.los
    /\ op' = [name |-> "add_or_update", arg |-> rec]
    /\ UNCHANGED <<lifecycle, heap, held, others>>

ClientRemove(alarm_id) ==
    /\ LET c == remove(active_power_issues, active_los_alarms, alarm_id)
       IN  /\ active_power_issues' = c.power
           /\ active_los_alarms' = c.los
    /\ op' = [name |-> "remove", arg |-> alarm_id]
    /\ UNCHANGED <<lifecycle, heap, held, others>>

\* A snapshot call: the list returned is get_power_issues of the state.
ClientGetPowerIssues ==
    /\ op' = [name |-> "get_power_issues", arg |-> None]
    /\ UNCHANGED <<cache, lifecycle, heap, held, others>>

ClientGetLosAlarms ==
    /\ op' = [name |-> "get_los_alarms", arg |-> None]
    /\ UNCHANGED <<cache, lifecycle, heap, held, others>>

InitCache == InitFrom({[id \in AlarmIds |-> NoRow]}) /\ InitOthers

NextCache ==
    \/ \E recs \in LoadLists : ClientLoadPowerIssues(recs)
    \/ \E recs \in LoadLists : ClientLoadLosAlarms(recs)
    \/ \E rec \in CacheRecords : ClientAddOrUpdate(rec)
    \/ \E id \in AlarmIds : ClientRemove(id)
    \/ ClientGetPowerIssues
    \/ ClientGetLosAlarms

SpecCache == InitCache /\ [][NextCache]_vars

(***************************************************************************)
(* The AlarmCache API with object identity: the records a client passes   *)
(* in are fresh dict objects on a heap, and the lists it gets back refer   *)
(* to the dicts the cache holds.                                           *)
(***************************************************************************)
Range(f) == {f[x] : x \in DOMAIN f}

\* Records and lists of the client: one alarm_id, distinct keys in a list.
AliasRecords == {r \in CacheRecords : r.alarm_id = "A1"}

AliasLoadLists == {recs \in LoadLists : Len(recs) <= 1 /\ Range(recs) \subseteq AliasRecords}

\* Fields of a returned record the client may assign, and the values.
FieldValues ==
    [alarm_name |-> {"Power Issue", "Loss of signal - OCH"},
     severity |-> {"CRITICAL", "MAJOR", "MINOR"}]

\* The n lowest slots of a set of free slots, ascending.
RECURSIVE Alloc(_, _)
Alloc(n, free) ==
    IF n = 0 THEN << >>
    ELSE LET m == CHOOSE x \in free : \A y \in free : x <= y
         IN  <<m>> \o Alloc(n - 1, free \ {m})

\* The heap with the objects `slots` created holding `recs`.
Created(slots, recs) ==
    [o \in ObjIds |-> IF \E i \in 1..Len(slots) : slots[i] = o
                      THEN recs[CHOOSE i \in 1..Len(slots) : slots[i] = o]
                      ELSE heap[o]]

\* Objects no dict and no held list refers to are reclaimed.
Collect(h, live) == [o \in ObjIds |-> IF o \in live THEN h[o] ELSE Free]

\* What a snapshot call returns, as the client reads it: the records' fields.
Contents(refs, h) == [i \in 1..Len(refs) |-> h[refs[i]]]

AliasLoadPowerIssues(recs) ==
    LET keep  == Range(DictValues(active_los_alarms)) \cup Range(held)
        slots == Alloc(Len(recs), ObjIds \ keep)
        h     == Created(slots, recs)
        power == load_power_issues(slots, h)
    IN  /\ Len(recs) <= Cardinality(ObjIds \ keep)
        /\ active_power_issues' = power
        /\ heap' = Collect(h, keep \cup Range(DictValues(power)))
        /\ op' = [name |-> "load_power_issues", arg |-> recs]
        /\ UNCHANGED <<active_los_alarms, held, lifecycle, others>>

AliasLoadLosAlarms(recs) ==
    LET keep  == Range(DictValues(active_power_issues)) \cup Range(held)
        slots == Alloc(Len(recs), ObjIds \ keep)
        h     == Created(slots, recs)
        los   == load_los_alarms(slots, h)
    IN  /\ Len(recs) <= Cardinality(ObjIds \ keep)
        /\ active_los_alarms' = los
        /\ heap' = Collect(h, keep \cup Range(DictValues(los)))
        /\ op' = [name |-> "load_los_alarms", arg |-> recs]
        /\ UNCHANGED <<active_power_issues, held, lifecycle, others>>

\* AliasAddOrUpdate for a cache that updates in place the loss-of-signal
\* dict object it already holds under the alarm_id.
AliasAddOrUpdateInPlace(rec) ==
    IF IsLosAlarm(rec) /\ DictHas(active_los_alarms, rec.alarm_id)
    THEN /\ heap' = [heap EXCEPT ![DictGet(active_los_alarms, rec.alarm_id)] = rec]
         /\ op' = [name |-> "add_or_update", arg |-> rec]
         /\ UNCHANGED <<cache, held, lifecycle, others>>
    ELSE LET keep  == Range(DictValues(active_power_issues))
                      \cup Range(DictValues(active_los_alarms)) \cup Range(held)
             slots == Alloc(1, ObjIds \ keep)
             h     == Created(slots, <<rec>>)
             c     == add_or_update(active_power_issues, active_los_alarms, slots[1], h)
         IN  /\ ObjIds \ keep # {}
             /\ active_power_issues' = c.power
             /\ active_los_alarms' = c.los
             /\ heap' = Collect(h, Range(DictValues(c.power)) \cup Range(DictValues(c.los))
                                   \cup Range(held))
             /\ op' = [name |-> "add_or_update", arg |-> rec]
             /\ UNCHANGED <<held, lifecycle, others>>

AliasAddOrUpdate(rec) ==
    LET keep  == Range(DictValues(active_power_issues))
                 \cup Range(DictValues(active_los_alarms)) \cup Range(held)
        slots == Alloc(1, ObjIds \ keep)
        h     == Created(slots, <<rec>>)
        c     == add_or_update(active_power_issues, active_los_alarms, slots[1], h)
    IN  /\ ObjIds \ keep # {}
        /\ active_power_issues' = c.power
        /\ active_los_alarms' = c.los
        /\ heap' = Collect(h, Range(DictValues(c.power)) \cup Range(DictValues(c.los))
                              \cup Range(held))
        /\ op' = [name |-> "add_or_update", arg |-> rec]
        /\ UNCHANGED <<held, lifecycle, others>>

AliasRemove(alarm_id) ==
    LET c == remove(active_power_issues, active_los_alarms, alarm_id)
    IN  /\ active_power_issues' = c.power
        /\ active_los_alarms' = c.los
        /\ heap' = Collect(heap, Range(DictValues(c.power)) \cup Range(DictValues(c.los))
                                 \cup Range(held))
        /\ op' = [name |-> "remove", arg |-> alarm_id]
        /\ UNCHANGED <<held, lifecycle, others>>

AliasGetPowerIssues ==
    /\ held' = get_power_issues(active_power_issues)
    /\ heap' = Collect(heap, Range(DictValues(active_power_issues))
                             \cup Range(DictValues(active_los_alarms)) \cup Range(held'))
    /\ op' = [name |-> "get_power_issues", arg |-> None]
    /\ UNCHANGED <<cache, lifecycle, others>>

AliasGetLosAlarms ==
    /\ held' = get_los_alarms(active_los_alarms)
    /\ heap' = Collect(heap, Range(DictValues(active_power_issues))
                             \cup Range(DictValues(active_los_alarms)) \cup Range(held'))
    /\ op' = [name |-> "get_los_alarms", arg |-> None]
    /\ UNCHANGED <<cache, lifecycle, others>>

\* The client assigns a field of a record of the list it holds.
AliasMutate(i, f, val) ==
    /\ i \in 1..Len(held)
    /\ heap[held[i]][f] # val
    /\ heap' = [heap EXCEPT ![held[i]][f] = val]
    /\ op' = [name |-> "mutate", arg |-> <<i, f, val>>]
    /\ UNCHANGED <<cache, held, lifecycle, others>>

InitAlias == InitFrom({[id \in AlarmIds |-> NoRow]}) /\ InitOthers

NextAlias ==
    \/ \E recs \in AliasLoadLists : AliasLoadPowerIssues(recs)
    \/ \E recs \in AliasLoadLists : AliasLoadLosAlarms(recs)
    \/ \E rec \in AliasRecords : AliasAddOrUpdate(rec)
    \/ \E id \in AlarmIds : AliasRemove(id)
    \/ AliasGetPowerIssues
    \/ AliasGetLosAlarms
    \/ \E i \in 1..MaxObjs, f \in DOMAIN FieldValues :
          \E val \in FieldValues[f] : AliasMutate(i, f, val)

SpecAlias == InitAlias /\ [][NextAlias]_vars

(***************************************************************************)
(* The timestamp functions applied to the values a notification can carry *)
(***************************************************************************)
\* Longest str handed to a timestamp function.
MaxStrLen == 2

TsStrings == {PyStr(chars, 1) : chars \in UNION {[1..n -> Chars] : n \in 0..MaxStrLen}}

\* Strings longer than MaxStrLen, written as repetitions.
TsLongStrings ==
    {PyStr(<<"5">>, 12), PyStr(<<"5">>, 14), PyStr(<<"5">>, 15), PyStr(<<"5">>, 16),
     PyStr(<<"0", "5">>, 2), PyStr(<<"0">>, 4300), PyStr(<<"0">>, 4301),
     PyStr(<<"5">>, 4300), PyStr(<<"5">>, 4301), PyStr(<<"sup2">>, 4301)}

\* Instants around the changes of Asia/Dhaka, the first and the last day of
\* datetime and the sizes at which a float loses microseconds.
TsInstants ==
    {PyIntAt(at[1], at[2]) :
        at \in {<<14500, 0>>, <<14414, 61199999>>, <<14414, 61200000>>,
                <<14609, 61199999>>, <<14609, 61200000>>,
                <<-6669, 62999999>>, <<-8000, 0>>, <<-10000, 1>>, <<-23148, 1000>>,
                <<-24856, 74751999>>, <<-24856, 74752000>>,
                <<-40000, 0>>, <<-719162, 0>>, <<-719163, 86399999>>,
                <<2932896, 64799999>>, <<2932896, 64800000>>, <<2932896, 86399999>>,
                <<2932897, 0>>, <<99420, 46592123>>, <<99420, 46591123>>,
                <<-397683, 72831999>>, <<-397683, 72832001>>, <<1590728, 54272999>>}}
    \cup {PyFloatAt(14500, 1), PyFloatAt(2932896, 64800000)}

TsNumbers ==
    {PyInt(n) : n \in {0 - 5, 0, 5, 1500}}
        \cup {HugeInt, PyFloat(5), PyBool(TRUE), PyBool(FALSE)} \cup TsInstants

\* Keys and member values of a structured timestamp.
TsKeys == {"value", "milliseconds", "seconds", "unit"}

MemberValues ==
    {PyNone, PyInt(0), PyInt(5), PyInt(1250000000), PyList(0),
     PyStr(<<"5">>, 1), PyStr(<<"5", "5", "5", "5", "5">>, 1), PyStr(<<"a">>, 1)}

TsDicts == {PyDict(items) : items \in UNION {[K -> MemberValues] : K \in SUBSET TsKeys}}

TsInputs == {PyNone, PyList(0), PyList(1)} \cup TsNumbers \cup TsStrings \cup TsLongStrings \cup TsDicts

\* A notification carries the timestamp; each function converts it.
ConvertLocal ==
    /\ conversion' = [conversion EXCEPT !.fn = "utc_ms_to_local_iso",
                                        !.out = utc_ms_to_local_iso(conversion.arg)]
    /\ UNCHANGED <<lifecycle, cache, client, normalizing, lock, startup, process>>

ConvertUtc ==
    /\ conversion' = [conversion EXCEPT !.fn = "epoch_ms_to_utc",
                                        !.out = epoch_ms_to_utc(conversion.arg)]
    /\ UNCHANGED <<lifecycle, cache, client, normalizing, lock, startup, process>>

InitTime ==
    /\ InitFrom({[id \in AlarmIds |-> NoRow]})
    /\ conversion \in {[fn |-> "none", arg |-> ts, out |-> Return(PyNone)] : ts \in TsInputs}
    /\ InitNormalizer /\ InitLocking /\ InitProcess

NextTime == ConvertLocal \/ ConvertUtc

SpecTime == InitTime /\ [][NextTime]_vars

(***************************************************************************)
(* normalize_alarm reading the cache while lifecycle workers write it       *)
(***************************************************************************)
\* Cache writes by lifecycle workers before the model stops taking more.
MaxMutations == 3

\* The cache as the two calls of normalize_alarm would list it.
CacheLists(power, los) == <<get_power_issues(power), get_los_alarms(los)>>

\* Lines 77-100: a notification is parsed; the cache is about to be read.
NormalizeStart ==
    /\ normalizing.pc = "idle"
    /\ normalizing' = [normalizing EXCEPT !.pc = "get_power_issues"]
    /\ UNCHANGED <<lifecycle, cache, client, conversion, lock, startup, process>>

\* Line 105.
NormalizeGetPowerIssues ==
    /\ normalizing.pc = "get_power_issues"
    /\ normalizing' = [normalizing EXCEPT !.pc = "get_los_alarms",
                                          !.power = get_power_issues(active_power_issues)]
    /\ UNCHANGED <<lifecycle, cache, client, conversion, lock, startup, process>>

\* Line 106.
NormalizeGetLosAlarms ==
    /\ normalizing.pc = "get_los_alarms"
    /\ normalizing' = [normalizing EXCEPT !.pc = "should_drop_alarm",
                                          !.los = get_los_alarms(active_los_alarms)]
    /\ UNCHANGED <<lifecycle, cache, client, conversion, lock, startup, process>>

\* Lines 111-125: both lists go to should_drop_alarm; the invocation ends.
NormalizeDecide ==
    /\ normalizing.pc = "should_drop_alarm"
    /\ normalizing' = [normalizing EXCEPT !.pc = "idle", !.power = << >>, !.los = << >>]
    /\ UNCHANGED <<lifecycle, cache, client, conversion, lock, startup, process>>

\* alarm_lifecycle.py line 114, by a lifecycle worker running beside the
\* normalizer.
WorkerAddOrUpdate(rec) ==
    /\ normalizing.mutations < MaxMutations
    /\ LET c == add_or_update(active_power_issues, active_los_alarms, rec, Obj(rec))
       IN  /\ active_power_issues' = c.power
           /\ active_los_alarms' = c.los
           /\ normalizing' = [normalizing EXCEPT
                                 !.mutations = @ + 1,
                                 !.instants = @ \cup {CacheLists(c.power, c.los)}]
    /\ UNCHANGED <<lifecycle, client, conversion, lock, startup, process>>

\* alarm_lifecycle.py line 85, by a lifecycle worker running beside the
\* normalizer.
WorkerRemove(alarm_id) ==
    /\ normalizing.mutations < MaxMutations
    /\ LET c == remove(active_power_issues, active_los_alarms, alarm_id)
       IN  /\ active_power_issues' = c.power
           /\ active_los_alarms' = c.los
           /\ normalizing' = [normalizing EXCEPT
                                 !.mutations = @ + 1,
                                 !.instants = @ \cup {CacheLists(c.power, c.los)}]
    /\ UNCHANGED <<lifecycle, client, conversion, lock, startup, process>>

InitNormalize ==
    /\ InitFrom(InitialTables)
    /\ InitConversion /\ InitLocking /\ InitProcess
    /\ normalizing = [NotNormalizing EXCEPT
                         !.instants = {CacheLists(active_power_issues, active_los_alarms)}]

NextNormalize ==
    \/ NormalizeStart
    \/ NormalizeGetPowerIssues
    \/ NormalizeGetLosAlarms
    \/ NormalizeDecide
    \/ \E rec \in CacheRecords : WorkerAddOrUpdate(rec)
    \/ \E id \in AlarmIds : WorkerRemove(id)

SpecNormalize == InitNormalize /\ [][NextNormalize]_vars

(***************************************************************************)
(* The threads of the process around AlarmCache._lock: main loading the   *)
(* cache, lifecycle workers, and the normalizer.  Each `with self._lock`   *)
(* block is three steps: acquire, the body, release.                       *)
(***************************************************************************)
\* Lifecycle events handed to the workers before the model stops taking more.
MaxLockEvents == 2

\* Notifications handed to normalize_alarm before the model stops taking more.
MaxNotifications == 1

\* full_flow_main.py line 131: AlarmCache() has just been constructed.
Loading == [pc |-> "query", category |-> "power_issues", alarms |-> << >>]

\* Lines 134 and 135, the argument: the startup query of the category.
StartupQuery ==
    /\ startup.pc = "query"
    /\ \E order \in ScanOrders :
          startup' = [startup EXCEPT
                         !.pc = "acquire",
                         !.alarms = IF startup.category = "power_issues"
                                    THEN get_active_power_issues(active_alarms, order)
                                    ELSE get_active_los_alarms(active_alarms, order)]
    /\ UNCHANGED <<lifecycle, cache, client, conversion, normalizing, lock, process>>

\* Lines 134-135 and 139: the startup query raises, at connect or at the
\* SELECT; the loader is not entered, main leaves for the fatal-error path
\* and start_kafka_consumer is never called.
StartupQueryFails ==
    /\ startup.pc = "query"
    /\ startup' = [startup EXCEPT !.pc = "except"]
    /\ UNCHANGED <<lifecycle, cache, client, conversion, normalizing, lock, process>>

\* alarm_cache.py lines 15 and 21.
StartupAcquire ==
    /\ startup.pc = "acquire"
    /\ lock = None
    /\ lock' = "main"
    /\ startup' = [startup EXCEPT !.pc = "store"]
    /\ UNCHANGED <<lifecycle, cache, client, conversion, normalizing, process>>

\* alarm_cache.py lines 16-18 and 22-24.
StartupStore ==
    /\ startup.pc = "store"
    /\ IF startup.category = "power_issues"
       THEN /\ active_power_issues' = load_power_issues(startup.alarms, ObjAll(startup.alarms))
            /\ UNCHANGED active_los_alarms
       ELSE /\ active_los_alarms' = load_los_alarms(startup.alarms, ObjAll(startup.alarms))
            /\ UNCHANGED active_power_issues
    /\ startup' = [startup EXCEPT !.pc = "release"]
    /\ UNCHANGED <<lifecycle, client, conversion, normalizing, lock, process>>

\* The with block of the loader is left; main goes on to the next category,
\* or to start_kafka_consumer (line 137).
StartupRelease ==
    /\ startup.pc = "release"
    /\ lock' = None
    /\ startup' = IF startup.category = "power_issues"
                  THEN [pc |-> "query", category |-> "los_alarms", alarms |-> << >>]
                  ELSE Consuming
    /\ UNCHANGED <<lifecycle, cache, client, conversion, normalizing, process>>

\* alarm_cache.py line 53, called from alarm_lifecycle.py line 85.
RemoveAcquire(w) ==
    /\ pc[w] = "in_unit"
    /\ IsClear(alarm[w])
    /\ lock = None
    /\ lock' = w
    /\ pc' = [pc EXCEPT ![w] = "remove: locked"]
    /\ UNCHANGED <<store, cache, alarm, row, tx, calls, pre, issued, client,
                   conversion, normalizing, startup, process>>

\* alarm_cache.py lines 54-55.
RemovePop(w) ==
    /\ pc[w] = "remove: locked"
    /\ LET c == remove(active_power_issues, active_los_alarms, alarm[w].alarm_id)
       IN  /\ active_power_issues' = c.power
           /\ active_los_alarms' = c.los
    /\ pc' = [pc EXCEPT ![w] = "remove: popped"]
    /\ calls' = [calls EXCEPT ![w] = Append(@, "remove")]
    /\ UNCHANGED <<store, alarm, row, tx, pre, issued, client, others>>

\* RemoveRelease for a remove that returns without releasing the lock.
RemoveReleaseKeepsLock(w) ==
    /\ pc[w] = "remove: popped"
    /\ pc' = [pc EXCEPT ![w] = "evicted"]
    /\ UNCHANGED <<store, cache, alarm, row, tx, calls, pre, issued, client, others>>

\* The with block of remove is left.
RemoveRelease(w) ==
    /\ pc[w] = "remove: popped"
    /\ lock' = None
    /\ pc' = [pc EXCEPT ![w] = "evicted"]
    /\ UNCHANGED <<store, cache, alarm, row, tx, calls, pre, issued, client,
                   conversion, normalizing, startup, process>>

\* AddAcquire for an add_or_update that enters its block without waiting
\* for the lock.
AddAcquireUnguarded(w) ==
    /\ pc[w] = "upserted"
    /\ lock' = w
    /\ pc' = [pc EXCEPT ![w] = "add_or_update: locked"]
    /\ UNCHANGED <<store, cache, alarm, row, tx, calls, pre, issued, client,
                   conversion, normalizing, startup, process>>

\* alarm_cache.py line 45, called from alarm_lifecycle.py line 114.
AddAcquire(w) ==
    /\ pc[w] = "upserted"
    /\ lock = None
    /\ lock' = w
    /\ pc' = [pc EXCEPT ![w] = "add_or_update: locked"]
    /\ UNCHANGED <<store, cache, alarm, row, tx, calls, pre, issued, client,
                   conversion, normalizing, startup, process>>

\* alarm_cache.py lines 46-50.
AddStore(w) ==
    /\ pc[w] = "add_or_update: locked"
    /\ LET c == add_or_update(active_power_issues, active_los_alarms,
                              alarm[w], Obj(alarm[w]))
       IN  /\ active_power_issues' = c.power
           /\ active_los_alarms' = c.los
    /\ pc' = [pc EXCEPT ![w] = "add_or_update: stored"]
    /\ calls' = [calls EXCEPT ![w] = Append(@, "add_or_update")]
    /\ UNCHANGED <<store, alarm, row, tx, pre, issued, client, others>>

\* The with block of add_or_update is left.
AddRelease(w) ==
    /\ pc[w] = "add_or_update: stored"
    /\ lock' = None
    /\ pc' = [pc EXCEPT ![w] = "exiting"]
    /\ UNCHANGED <<store, cache, alarm, row, tx, calls, pre, issued, client,
                   conversion, normalizing, startup, process>>

\* alarm_normalizer.py lines 77-100: the consumer hands one more notification
\* to normalize_alarm, which parses it; the cache is about to be read.
NormalizeCall ==
    /\ normalizing.pc = "idle"
    /\ normalizing.notifications < MaxNotifications
    /\ normalizing' = [normalizing EXCEPT !.pc = "get_power_issues",
                                          !.notifications = @ + 1]
    /\ UNCHANGED <<lifecycle, cache, client, conversion, lock, startup, process>>

\* alarm_cache.py lines 30 and 34, called from alarm_normalizer.py lines
\* 105 and 106.
GetAcquire ==
    /\ normalizing.pc \in {"get_power_issues", "get_los_alarms"}
    /\ lock = None
    /\ lock' = "normalizer"
    /\ normalizing' = [normalizing EXCEPT
                          !.pc = IF @ = "get_power_issues" THEN "get_power_issues: locked"
                                 ELSE "get_los_alarms: locked"]
    /\ UNCHANGED <<lifecycle, cache, client, conversion, startup, process>>

\* alarm_cache.py lines 31 and 35: the list is built under the lock.
GetCopy ==
    /\ normalizing.pc \in {"get_power_issues: locked", "get_los_alarms: locked"}
    /\ normalizing' =
          IF normalizing.pc = "get_power_issues: locked"
          THEN [normalizing EXCEPT !.pc = "get_power_issues: copied",
                                   !.power = get_power_issues(active_power_issues)]
          ELSE [normalizing EXCEPT !.pc = "get_los_alarms: copied",
                                   !.los = get_los_alarms(active_los_alarms)]
    /\ UNCHANGED <<lifecycle, cache, client, conversion, lock, startup, process>>

\* The with block of the reader is left.
GetRelease ==
    /\ normalizing.pc \in {"get_power_issues: copied", "get_los_alarms: copied"}
    /\ lock' = None
    /\ normalizing' = [normalizing EXCEPT
                          !.pc = IF @ = "get_power_issues: copied" THEN "get_los_alarms"
                                 ELSE "should_drop_alarm"]
    /\ UNCHANGED <<lifecycle, cache, client, conversion, startup, process>>

\* Contents of active_alarms when main loads the cache: a row of each
\* category.
StartupTables ==
    { [id \in AlarmIds |-> IF id = "A1" THEN JsonDumps(PowerIssueRecord(id))
                           ELSE JsonDumps(LosRecord(id))] }

InitLock ==
    /\ active_alarms \in StartupTables
    /\ alarm_history = << >>
    /\ active_power_issues = EmptyDict
    /\ active_los_alarms = EmptyDict
    /\ pc = [w \in Workers |-> "idle"]
    /\ alarm = [w \in Workers |-> NoAlarm]
    /\ row = [w \in Workers |-> NoRow]
    /\ tx = [w \in Workers |-> << >>]
    /\ calls = [w \in Workers |-> << >>]
    /\ pre = [w \in Workers |-> NoSnapshot]
    /\ issued = 0
    /\ heap = [o \in ObjIds |-> Free]
    /\ held = << >>
    /\ op = NoCall
    /\ InitConversion /\ InitNormalizer /\ InitProcess
    /\ lock = None
    /\ startup = Loading

\* The consumer runs once main has loaded the cache.
Started == startup.pc = "start_kafka_consumer"

\* Events of the lifecycle workers: a create and a CLEAR of one alarm.
LockEvents ==
    {e \in ConcurrentEvents :
        \/ e.event_type = "alarm-create" /\ e.severity = "MAJOR"
        \/ e.event_type = "alarm-change" /\ e.severity = "CLEAR"}

\* The steps of a lifecycle worker inside an invocation.
LockStep(w) ==
    \/ RemoveAcquire(w)
    \/ RemovePop(w)
    \/ RemoveRelease(w)
    \/ ExecDelete(w)
    \/ ExecInsertHistory(w)
    \/ ExecUpsert(w)
    \/ AddAcquire(w)
    \/ AddStore(w)
    \/ AddRelease(w)
    \/ Commit(w)
    \/ CommitFail(w)
    \/ ExecFail(w)
    \/ Finish(w)

\* The steps of main, and of the normalizer inside an invocation.
StartupStep ==
    StartupQuery \/ StartupQueryFails \/ StartupAcquire \/ StartupStore \/ StartupRelease

NormalizeStep == GetAcquire \/ GetCopy \/ GetRelease \/ NormalizeDecide

NextLock ==
    \/ StartupStep
    \/ Started /\ NormalizeCall
    \/ NormalizeStep
    \/ \E w \in Workers :
          \/ \E e \in LockEvents : Started /\ issued < MaxLockEvents /\ Call(w, e)
          \/ \E e \in LockEvents : Started /\ issued < MaxLockEvents /\ ConnectFail(w, e)
          \/ LockStep(w)

SpecLock == InitLock /\ [][NextLock]_vars

\* Where each thread is: every step of a thread changes it.
positions == <<pc, lock, normalizing, startup>>

\* Fair scheduling of the threads: a thread whose next step stays possible
\* takes it.  threading.Lock hands the lock to no waiter in particular, and
\* neither does a row to the statements waiting for it: a thread is promised
\* the lock or the row only once it stays free.
SpecLockFair ==
    /\ SpecLock
    /\ WF_positions(StartupStep)
    /\ WF_positions(NormalizeStep)
    /\ \A w \in Workers : WF_positions(LockStep(w))

(***************************************************************************)
(* Shutdown of the process (full_flow_main.py).  Everything here runs on   *)
(* the main thread: the module body, the atexit hook and the signal        *)
(* handlers, which Python runs between two steps of whatever the main      *)
(* thread is executing.  process.stack holds the frames above the module   *)
(* body, innermost last.                                                    *)
(***************************************************************************)
\* Signals delivered to the process before the model stops taking more.
MaxSignals == 2

\* Lines 21-24 and 61-65: the globals, the handlers and the hook are set.
Starting ==
    [main |-> "TokenManager", stack |-> << >>,
     cleanup_done |-> FALSE, stop_event |-> FALSE,
     subscription_id |-> FALSE, token_mgr |-> FALSE,
     deleted |-> 0, revoked |-> 0, signals |-> 0]

Frame(fn, at) == [fn |-> fn, pc |-> at]

\* The innermost frame is a cleanup frame at the given line.
InCleanup(at) ==
    /\ process.stack # << >>
    /\ process.stack[Len(process.stack)] = Frame("cleanup", at)

\* The innermost frame moves to another line.
Goto(at) == [process.stack EXCEPT ![Len(process.stack)].pc = at]

Popped == SubSeq(process.stack, 1, Len(process.stack) - 1)

\* What the module body does when a cleanup it called returns to it.
MainAfterReturn(stack) ==
    IF stack # << >> THEN process.main
    ELSE IF process.main = "cleanup" THEN "sys.exit"
    ELSE IF process.main = "atexit" THEN "exited"
    ELSE process.main

\* cleanup returns to its caller.
CleanupReturns == [process EXCEPT !.stack = Popped, !.main = MainAfterReturn(Popped)]

\* Line 113, or an exception of it caught at line 139.
MainTokenManager ==
    /\ process.main = "TokenManager" /\ process.stack = << >>
    /\ \/ process' = [process EXCEPT !.token_mgr = TRUE, !.main = "create_subscription"]
       \/ process' = [process EXCEPT !.main = "except"]
    /\ UNCHANGED <<lifecycle, cache, client, conversion, normalizing, lock, startup>>

\* Line 122, or an exception of it caught at line 139.
MainCreateSubscription ==
    /\ process.main = "create_subscription" /\ process.stack = << >>
    /\ \/ process' = [process EXCEPT !.subscription_id = TRUE,
                                     !.main = "start_kafka_consumer"]
       \/ process' = [process EXCEPT !.main = "except"]
    /\ UNCHANGED <<lifecycle, cache, client, conversion, normalizing, lock, startup>>

\* Lines 124-137: the consumer returns and the module body ends, or an
\* exception reaches line 139.
MainConsume ==
    /\ process.main = "start_kafka_consumer" /\ process.stack = << >>
    /\ \/ process' = [process EXCEPT !.main = "exit"]
       \/ process' = [process EXCEPT !.main = "except"]
    /\ UNCHANGED <<lifecycle, cache, client, conversion, normalizing, lock, startup>>

\* Lines 140-141: the fatal-error path calls cleanup.
MainFatal ==
    /\ process.main = "except" /\ process.stack = << >>
    /\ process' = [process EXCEPT !.main = "cleanup",
                                  !.stack = <<Frame("cleanup", "if cleanup_done")>>]
    /\ UNCHANGED <<lifecycle, cache, client, conversion, normalizing, lock, startup>>

\* Line 142: sys.exit(1) ends the module body.
MainSysExit ==
    /\ process.main = "sys.exit" /\ process.stack = << >>
    /\ process' = [process EXCEPT !.main = "exit"]
    /\ UNCHANGED <<lifecycle, cache, client, conversion, normalizing, lock, startup>>

\* Line 65: the interpreter, finalizing, calls the registered cleanup.
AtExit ==
    /\ process.main = "exit" /\ process.stack = << >>
    /\ process' = [process EXCEPT !.main = "atexit",
                                  !.stack = <<Frame("cleanup", "if cleanup_done")>>]
    /\ UNCHANGED <<lifecycle, cache, client, conversion, normalizing, lock, startup>>

\* Lines 61-62: SIGINT or SIGTERM arrives; shutdown_handler is entered on
\* top of whatever the main thread is executing.
Signal ==
    /\ process.main # "exited"
    /\ process.signals < MaxSignals
    /\ process' = [process EXCEPT
                      !.signals = @ + 1,
                      !.stack = Append(@, Frame("shutdown_handler", "cleanup()"))]
    /\ UNCHANGED <<lifecycle, cache, client, conversion, normalizing, lock, startup>>

\* Line 57.
HandlerCleanup ==
    /\ process.stack # << >>
    /\ process.stack[Len(process.stack)] = Frame("shutdown_handler", "cleanup()")
    /\ process' = [process EXCEPT
                      !.stack = Append(Goto("sys.exit"), Frame("cleanup", "if cleanup_done"))]
    /\ UNCHANGED <<lifecycle, cache, client, conversion, normalizing, lock, startup>>

\* Line 58: SystemExit leaves the handler and every frame it interrupted
\* (`except Exception` at lines 42, 48 and 139 does not catch it); the
\* interpreter finalizes, unless it already was.
HandlerSysExit ==
    /\ process.stack # << >>
    /\ process.stack[Len(process.stack)] = Frame("shutdown_handler", "sys.exit")
    /\ process' = [process EXCEPT
                      !.stack = << >>,
                      !.main = IF @ = "atexit" THEN "exited" ELSE "exit"]
    /\ UNCHANGED <<lifecycle, cache, client, conversion, normalizing, lock, startup>>

\* CleanupCheck for a cleanup without the test of line 32.
CleanupCheckUnguarded ==
    /\ InCleanup("if cleanup_done")
    /\ process' = [process EXCEPT !.stack = Goto("cleanup_done = True")]
    /\ UNCHANGED <<lifecycle, cache, client, conversion, normalizing, lock, startup>>

\* Lines 32-33.
CleanupCheck ==
    /\ InCleanup("if cleanup_done")
    /\ process' = IF process.cleanup_done THEN CleanupReturns
                  ELSE [process EXCEPT !.stack = Goto("cleanup_done = True")]
    /\ UNCHANGED <<lifecycle, cache, client, conversion, normalizing, lock, startup>>

\* Line 34.
CleanupSetDone ==
    /\ InCleanup("cleanup_done = True")
    /\ process' = [process EXCEPT !.cleanup_done = TRUE,
                                  !.stack = Goto("stop_event.set()")]
    /\ UNCHANGED <<lifecycle, cache, client, conversion, normalizing, lock, startup>>

\* Line 37.
CleanupSetStop ==
    /\ InCleanup("stop_event.set()")
    /\ process' = [process EXCEPT !.stop_event = TRUE,
                                  !.stack = Goto("if subscription_id")]
    /\ UNCHANGED <<lifecycle, cache, client, conversion, normalizing, lock, startup>>

\* Lines 39-41: delete_subscription is invoked.
CleanupDelete ==
    /\ InCleanup("if subscription_id")
    /\ process' = IF process.subscription_id
                  THEN [process EXCEPT !.deleted = @ + 1,
                                       !.stack = Goto("delete_subscription")]
                  ELSE [process EXCEPT !.stack = Goto("if token_mgr")]
    /\ UNCHANGED <<lifecycle, cache, client, conversion, normalizing, lock, startup>>

\* Lines 41-43: delete_subscription returns, or raises an Exception that is
\* printed.
CleanupDeleteEnds ==
    /\ InCleanup("delete_subscription")
    /\ process' = [process EXCEPT !.stack = Goto("if token_mgr")]
    /\ UNCHANGED <<lifecycle, cache, client, conversion, normalizing, lock, startup>>

\* Lines 45-47: token_mgr.revoke is invoked.
CleanupRevoke ==
    /\ InCleanup("if token_mgr")
    /\ process' = IF process.token_mgr
                  THEN [process EXCEPT !.revoked = @ + 1,
                                       !.stack = Goto("token_mgr.revoke")]
                  ELSE CleanupReturns
    /\ UNCHANGED <<lifecycle, cache, client, conversion, normalizing, lock, startup>>

\* Lines 47-49: revoke returns, or raises an Exception that is printed;
\* cleanup returns.
CleanupRevokeEnds ==
    /\ InCleanup("token_mgr.revoke")
    /\ process' = CleanupReturns
    /\ UNCHANGED <<lifecycle, cache, client, conversion, normalizing, lock, startup>>

InitCleanup ==
    /\ InitFrom({[id \in AlarmIds |-> NoRow]})
    /\ InitConversion /\ InitNormalizer /\ InitLocking
    /\ process = Starting

NextCleanup ==
    \/ MainTokenManager
    \/ MainCreateSubscription
    \/ MainConsume
    \/ MainFatal
    \/ MainSysExit
    \/ AtExit
    \/ Signal
    \/ HandlerCleanup
    \/ HandlerSysExit
    \/ CleanupCheck
    \/ CleanupSetDone
    \/ CleanupSetStop
    \/ CleanupDelete
    \/ CleanupDeleteEnds
    \/ CleanupRevoke
    \/ CleanupRevokeEnds

SpecCleanup == InitCleanup /\ [][NextCleanup]_vars

(***************************************************************************)
(* Properties                                                              *)
(***************************************************************************)
Count(seq, x) == Cardinality({i \in 1..Len(seq) : seq[i] = x})

Issued(w, call) == Count(calls[w], call) > 0

\* w is handling, or has just handled, an alarm dict.
Handling(w) == pc[w] # "idle"

\* The alarm dict takes the create / non-CLEAR change path to the upsert.
TakesUpsertPath(a) == ~ReturnsBeforeUnit(a) /\ ~IsClear(a) /\ ~ReturnsInUnit(a)

\* The alarm dict is a CLEAR change that carries alarm_id and event_type.
TakesClearPath(a) == ~ReturnsBeforeUnit(a) /\ IsClear(a)

\* C1 (as claimed): when the store unit of a create or non-CLEAR change
\* fails, at a statement or at commit, and is rolled back, that event has
\* not changed the cache: both categories are as they were when the
\* invocation began.
C1_CacheUntouchedWhenUnitFails ==
    \A w \in Workers :
        (pc[w] = "raised" /\ TakesUpsertPath(alarm[w]))
            => /\ active_power_issues = pre[w].power
               /\ active_los_alarms = pre[w].los

\* C2: a CLEAR change with alarm_id and event_type evicts alarm_id from the
\* cache before it issues the DELETE; once the unit has committed, the
\* history table has grown by exactly one row carrying the payload the
\* DELETE returned, or by none when the DELETE returned no row.
C2_ClearEvictsFirstAndArchivesOnce ==
    \A w \in Workers :
        (Handling(w) /\ TakesClearPath(alarm[w])) =>
            /\ \A i \in 1..Len(calls[w]) :
                  calls[w][i] = "execute DELETE_ACTIVE_SQL"
                      => \E j \in 1..(i - 1) : calls[w][j] = "remove"
            /\ pc[w] = "evicted" =>
                  /\ ~DictHas(active_power_issues, alarm[w].alarm_id)
                  /\ ~DictHas(active_los_alarms, alarm[w].alarm_id)
                  /\ ~Issued(w, "execute DELETE_ACTIVE_SQL")
            /\ pc[w] = "returned" =>
                  IF row[w] # NoRow
                  THEN /\ Count(calls[w], "execute INSERT_HISTORY_SQL") = 1
                       /\ alarm_history =
                             Append(pre[w].history,
                                    [alarm_id |-> alarm[w].alarm_id, alarm |-> row[w]])
                  ELSE /\ Count(calls[w], "execute INSERT_HISTORY_SQL") = 0
                       /\ alarm_history = pre[w].history

\* C2 witness: a CLEAR whose DELETE returned the prior payload has committed.
C2_Witness ==
    \E w \in Workers :
        /\ pc[w] = "returned" /\ TakesClearPath(alarm[w])
        /\ row[w] # NoRow
        /\ Len(alarm_history) = Len(pre[w].history) + 1

\* C3: the statements of one event are one all-or-nothing unit whose failure
\* reaches the caller.  No statement is visible before the commit; a unit
\* that rolled back leaves the handler by raising; and when a CLEAR fails
\* after its DELETE was issued both tables are as before the event while the
\* cache stays evicted.
C3_UnitIsAtomicAndFailureRaises ==
    \A w \in Workers :
        /\ pc[w] \in {"in_unit", "evicted", "deleted", "upserted", "exiting"}
              => /\ active_alarms = pre[w].active
                 /\ alarm_history = pre[w].history
        /\ Issued(w, "rollback") => pc[w] = "raised"
        /\ (pc[w] = "raised" /\ TakesClearPath(alarm[w])
              /\ Issued(w, "execute DELETE_ACTIVE_SQL"))
              => /\ active_alarms = pre[w].active
                 /\ alarm_history = pre[w].history
                 /\ tx[w] = << >>
                 /\ Issued(w, "rollback")
                 /\ LET c == remove(pre[w].power, pre[w].los, alarm[w].alarm_id)
                    IN  /\ active_power_issues = c.power
                        /\ active_los_alarms = c.los

\* C3 witness: a CLEAR of a cached, active alarm failed after its history
\* insert was issued.
C3_Witness ==
    \E w \in Workers :
        /\ pc[w] = "raised" /\ TakesClearPath(alarm[w])
        /\ Issued(w, "execute INSERT_HISTORY_SQL")
        /\ DictHas(pre[w].power, alarm[w].alarm_id)
        /\ active_alarms[alarm[w].alarm_id] # NoRow

\* C4 (as claimed): with concurrent workers and every unit committing, when
\* no lifecycle event is in flight every alarm_id in either cache category
\* has a row in the active table.
C4_CacheHoldsOnlyActiveAlarms ==
    (\A w \in Workers : pc[w] \in {"idle", "returned"})
        => \A id \in DictKeys(active_power_issues) \cup DictKeys(active_los_alarms) :
              active_alarms[id] # NoRow

\* Every stored record satisfies the predicate of its category.
CategoryPredicatesHold ==
    /\ \A i \in 1..Len(active_power_issues) : IsPowerIssue(active_power_issues[i].v)
    /\ \A i \in 1..Len(active_los_alarms) : IsLosAlarm(active_los_alarms[i].v)

\* C5 (as claimed): after any sequence of load, upsert, evict and snapshot
\* calls every stored record satisfies the predicate of its category.
C5_CacheNeverViolatesPredicate == CategoryPredicatesHold

\* The call just made handed a loader a record outside the loader's category.
LoadsForeignRecord(call) ==
    \/ call.name = "load_power_issues"
       /\ \E i \in 1..Len(call.arg) : ~IsPowerIssue(call.arg[i])
    \/ call.name = "load_los_alarms"
       /\ \E i \in 1..Len(call.arg) : ~IsLosAlarm(call.arg[i])

\* C5 (amended): the empty cache satisfies the category predicates, and
\* every load, upsert, evict and snapshot call keeps them, provided a load
\* is handed only records that satisfy the predicate of the loaded category.
C5_PredicateKeptByFilteredLoads ==
    [][(CategoryPredicatesHold /\ ~LoadsForeignRecord(op')) => CategoryPredicatesHold']_vars

\* C5 witness: a loader was just handed two records of its category while
\* the other category is populated too.
C5_Witness ==
    /\ op.name = "load_power_issues" /\ ~LoadsForeignRecord(op)
    /\ Len(active_power_issues) = 2
    /\ Len(active_los_alarms) > 0
    /\ CategoryPredicatesHold

\* What the two snapshot calls return, as the client reads the records.
SnapshotPowerIssues == Contents(get_power_issues(active_power_issues), heap)

SnapshotLosAlarms == Contents(get_los_alarms(active_los_alarms), heap)

\* C6 (as claimed): assigning a field of a record returned by a snapshot call
\* changes the output of no later snapshot call.
C6_SnapshotIndependence ==
    [][op'.name = "mutate" =>
          /\ SnapshotPowerIssues' = SnapshotPowerIssues
          /\ SnapshotLosAlarms' = SnapshotLosAlarms]_vars

\* C7: an alarm-delete event, whatever its alarm_id and whatever the store
\* and the cache hold, returns normally without a store call or a cache
\* call, leaving both tables and both categories as they were.
C7_DeleteEventHasNoEffect ==
    \A w \in Workers :
        (Handling(w) /\ alarm[w].event_type = "alarm-delete") =>
            /\ pc[w] = "returned"
            /\ calls[w] = << >>
            /\ tx[w] = << >>
            /\ active_alarms = pre[w].active
            /\ alarm_history = pre[w].history
            /\ active_power_issues = pre[w].power
            /\ active_los_alarms = pre[w].los

\* C7 witness: an alarm-delete for an alarm that is active and cached.
C7_Witness ==
    \E w \in Workers :
        /\ pc[w] = "returned" /\ alarm[w].event_type = "alarm-delete"
        /\ alarm[w].alarm_id = "A1"
        /\ active_alarms["A1"] # NoRow
        /\ DictHas(active_power_issues, "A1")

\* An alarm dict without alarm_id or event_type, or a create / non-CLEAR
\* change without alarm_name or ne_name.
Malformed(a) ==
    \/ Falsy(a.alarm_id) \/ Falsy(a.event_type)
    \/ /\ a.event_type \in {"alarm-create", "alarm-change"}
       /\ ~IsClear(a)
       /\ (Falsy(a.alarm_name) \/ Falsy(a.ne_name))

\* The statements and cache calls an invocation has issued.
StatementsIssued(w) ==
    {i \in 1..Len(calls[w]) :
        calls[w][i] \in {"execute UPSERT_ACTIVE_SQL", "execute DELETE_ACTIVE_SQL",
                         "execute INSERT_HISTORY_SQL", "remove", "add_or_update"}}

\* C8 (as claimed): a malformed event is dropped silently: it issues no
\* statement and no cache call, no failure reaches the caller, and the
\* tables and the cache are as they were.
C8_MalformedEventDroppedSilently ==
    \A w \in Workers :
        (Handling(w) /\ Malformed(alarm[w])) =>
            /\ StatementsIssued(w) = {}
            /\ pc[w] # "raised"
            /\ active_alarms = pre[w].active
            /\ alarm_history = pre[w].history
            /\ active_power_issues = pre[w].power
            /\ active_los_alarms = pre[w].los

\* C9: when the unit of a well-formed create or non-CLEAR change has
\* committed, the upsert was issued exactly once, the row of alarm_id holds
\* the event's record, the other rows and the history table are as before,
\* and each category whose predicate the record satisfies holds the record
\* under alarm_id.
C9_CommittedUpsertStoresRecord ==
    \A w \in Workers :
        (pc[w] = "returned" /\ TakesUpsertPath(alarm[w])) =>
            LET id == alarm[w].alarm_id
            IN  /\ Count(calls[w], "execute UPSERT_ACTIVE_SQL") = 1
                /\ active_alarms[id] # NoRow
                /\ JsonLoads(active_alarms[id]) = alarm[w]
                /\ \A other \in AlarmIds \ {id} : active_alarms[other] = pre[w].active[other]
                /\ alarm_history = pre[w].history
                /\ IsPowerIssue(alarm[w]) =>
                      /\ DictHas(active_power_issues, id)
                      /\ DictGet(active_power_issues, id) = alarm[w]
                /\ IsLosAlarm(alarm[w]) =>
                      /\ DictHas(active_los_alarms, id)
                      /\ DictGet(active_los_alarms, id) = alarm[w]

\* C9 witness: a committed change that overwrote the row of an active alarm
\* with a record of the power-issue category.
C9_Witness ==
    \E w \in Workers :
        /\ pc[w] = "returned" /\ TakesUpsertPath(alarm[w])
        /\ IsPowerIssue(alarm[w])
        /\ pre[w].active[alarm[w].alarm_id] # NoRow
        /\ JsonLoads(pre[w].active[alarm[w].alarm_id]) # alarm[w]
        /\ DictHas(active_power_issues, alarm[w].alarm_id)

\* The entries of a dict under one key.
EntriesAt(d, key) == {i \in 1..Len(d) : d[i].k = key}

\* d2 is d1 with the entry of key set to val, every other entry as it was.
IsUpsertOf(d2, d1, key, val) ==
    /\ Cardinality(EntriesAt(d2, key)) = 1
    /\ DictGet(d2, key) = val
    /\ DictKeys(d2) = DictKeys(d1) \cup {key}
    /\ \A k \in DictKeys(d1) \ {key} : DictGet(d2, k) = DictGet(d1, k)

\* C10: after add_or_update(r) each category whose predicate r satisfies has
\* exactly one entry under r.alarm_id, equal to r, with its other entries
\* unchanged; a category whose predicate r does not satisfy is unchanged.
C10_UpsertPostcondition ==
    [][op'.name = "add_or_update" =>
          LET r == op'.arg
          IN  /\ IF IsPowerIssue(r)
                 THEN IsUpsertOf(active_power_issues', active_power_issues, r.alarm_id, r)
                 ELSE active_power_issues' = active_power_issues
              /\ IF IsLosAlarm(r)
                 THEN IsUpsertOf(active_los_alarms', active_los_alarms, r.alarm_id, r)
                 ELSE active_los_alarms' = active_los_alarms]_vars

\* C10 witness: an upsert of a loss-of-signal record has overwritten the
\* entry of its alarm_id, beside an entry under another alarm_id.
C10_Witness ==
    /\ op.name = "add_or_update" /\ IsLosAlarm(op.arg)
    /\ Len(active_los_alarms) = 2
    /\ active_los_alarms[1].k = op.arg.alarm_id
    /\ active_los_alarms[1].v = op.arg

\* d with the entry of key taken out, the other entries as they were.
WithoutKey(d, key) == SelectSeq(d, LAMBDA e : e.k # key)

\* C11: remove(alarm_id) leaves neither category with an entry under
\* alarm_id and every other entry as it was; for an alarm_id in neither
\* category both dicts, and so both snapshots, are as before.
C11_EvictFrame ==
    [][op'.name = "remove" =>
          LET id == op'.arg
          IN  /\ active_power_issues' = WithoutKey(active_power_issues, id)
              /\ active_los_alarms' = WithoutKey(active_los_alarms, id)
              /\ ~DictHas(active_power_issues', id)
              /\ ~DictHas(active_los_alarms', id)
              /\ (~DictHas(active_power_issues, id) /\ ~DictHas(active_los_alarms, id))
                    => /\ get_power_issues(active_power_issues')
                            = get_power_issues(active_power_issues)
                       /\ get_los_alarms(active_los_alarms')
                            = get_los_alarms(active_los_alarms)]_vars

\* C11 witness: after a remove, one category still holds the entry of the
\* other alarm_id while the other category is empty.
C11_Witness ==
    /\ op.name = "remove"
    /\ Len(active_los_alarms) = 1
    /\ active_los_alarms[1].k # op.arg
    /\ active_power_issues = EmptyDict

\* The records of a list, as a set.
Records(recs) == {recs[i] : i \in 1..Len(recs)}

\* C12: a load replaces its category: the snapshot after load(recs), recs of
\* distinct alarm_ids, holds exactly the records of recs, once each, in
\* whatever order recs lists them; the other category is unchanged.
C12_LoadReplaces ==
    [][/\ op'.name = "load_power_issues" =>
            /\ Records(get_power_issues(active_power_issues')) = Records(op'.arg)
            /\ Len(get_power_issues(active_power_issues')) = Len(op'.arg)
            /\ active_los_alarms' = active_los_alarms
       /\ op'.name = "load_los_alarms" =>
            /\ Records(get_los_alarms(active_los_alarms')) = Records(op'.arg)
            /\ Len(get_los_alarms(active_los_alarms')) = Len(op'.arg)
            /\ active_power_issues' = active_power_issues]_vars

\* C12 witness: a one-record load has replaced the power-issue category
\* while the other category holds two records.
C12_Witness ==
    /\ op.name = "load_power_issues"
    /\ Len(op.arg) = 1
    /\ DictKeys(active_power_issues) = {op.arg[1].alarm_id}
    /\ Len(active_los_alarms) = 2

\* A str that writes a number: ASCII digits only.
IsNumeric(s) ==
    /\ s.chars # << >>
    /\ \A i \in 1..Len(s.chars) : s.chars[i] \in AsciiDigits

\* A structured timestamp with none of value / milliseconds / seconds.
CarriesNoTime(ts) ==
    ts.type = "dict" /\ DOMAIN ts.items \cap {"value", "milliseconds", "seconds"} = {}

\* The function of the last conversion, applied to another argument.
SameFunction(ts) ==
    IF conversion.fn = "utc_ms_to_local_iso"
    THEN utc_ms_to_local_iso(ts) ELSE epoch_ms_to_utc(ts)

\* C13 (as claimed): a timestamp conversion never raises; the str of digits
\* and the int it writes convert to the same output; a str that is not a
\* number, and a dict with none of value / milliseconds / seconds, convert
\* to None.
C13_TimestampNormalizationTolerant ==
    conversion.fn # "none" =>
        LET ts == conversion.arg
        IN  /\ conversion.out.kind = "return"
            /\ (ts.type = "str" /\ IsNumeric(ts) /\ ts.times = 1)
                  => conversion.out = SameFunction(Decimal(ts.chars))
            /\ (ts.type = "str" /\ ~IsNumeric(ts)) => conversion.out = Return(PyNone)
            /\ CarriesNoTime(ts) => conversion.out = Return(PyNone)

\* The tables after handle_alarm_lifecycle has handled alarm dict a, alone
\* and with its unit committed, on tables st.
HandledAlone(a, st) ==
    IF TakesClearPath(a)
    THEN [active  |-> [st.active EXCEPT ![a.alarm_id] = NoRow],
          history |-> IF RowTruthy(st.active[a.alarm_id])
                      THEN Append(st.history, [alarm_id |-> a.alarm_id,
                                               alarm |-> st.active[a.alarm_id]])
                      ELSE st.history]
    ELSE IF TakesUpsertPath(a)
    THEN [active  |-> [st.active EXCEPT ![a.alarm_id] = JsonDumps(a)],
          history |-> st.history]
    ELSE [active |-> st.active, history |-> st.history]

\* C14 (as claimed): when the first two events of a run, both for one
\* alarm_id and each on a worker of its own, have returned, the tables are
\* what handling the first-issued event and then the second-issued event
\* alone would leave.
C14_StoreFollowsInvocationOrder ==
    \A first, second \in Workers :
        (/\ first # second
         /\ pc[first] = "returned" /\ pc[second] = "returned"
         /\ pre[first].issued = 0 /\ pre[second].issued = 1
         /\ issued = 2
         /\ alarm[first].alarm_id = alarm[second].alarm_id)
        => LET st == HandledAlone(alarm[second], HandledAlone(alarm[first], pre[first]))
           IN  /\ active_alarms = st.active
               /\ alarm_history = st.history

\* C15 (as claimed): the two lists normalize_alarm hands to
\* should_drop_alarm are together the contents of the cache at one instant.
C15_SnapshotsFromOneInstant ==
    normalizing.pc = "should_drop_alarm"
        => <<normalizing.power, normalizing.los>> \in normalizing.instants

\* C16: the list a snapshot call returned is a copy: no later
\* add_or_update, remove or load changes which records it holds or what
\* those records read.
C16_ReturnedListIndependent ==
    [][op'.name \in {"add_or_update", "remove", "load_power_issues", "load_los_alarms"}
          => /\ held' = held
             /\ Contents(held', heap') = Contents(held, heap)]_vars

\* C16 witness: the client holds a returned list whose record a later
\* cache write has taken out of, or replaced in, the cache.
C16_Witness ==
    /\ held # << >>
    /\ op.name \in {"add_or_update", "remove", "load_power_issues", "load_los_alarms"}
    /\ held[1] \notin Range(DictValues(active_power_issues))
                      \cup Range(DictValues(active_los_alarms))
    /\ heap[held[1]] # Free

\* The threads that use the cache.
Threads == Workers \cup {"normalizer", "main"}

\* Thread t is inside a `with self._lock` block of AlarmCache.
Inside(t) ==
    IF t = "main" THEN startup.pc \in {"store", "release"}
    ELSE IF t = "normalizer"
    THEN normalizing.pc \in {"get_power_issues: locked", "get_power_issues: copied",
                             "get_los_alarms: locked", "get_los_alarms: copied"}
    ELSE pc[t] \in {"remove: locked", "remove: popped",
                    "add_or_update: locked", "add_or_update: stored"}

\* This step of worker w issues a call on the store.
StoreCallBy(w) ==
    /\ Len(calls'[w]) > Len(calls[w])
    /\ \E i \in (Len(calls[w]) + 1)..Len(calls'[w]) :
          calls'[w][i] \notin {"remove", "add_or_update"}

\* This step reads or writes one of the two dicts of the cache.
CacheAccess ==
    \/ active_power_issues' # active_power_issues
    \/ active_los_alarms' # active_los_alarms
    \/ \E w \in Workers : /\ Len(calls'[w]) > Len(calls[w])
                          /\ calls'[w][Len(calls'[w])] \in {"remove", "add_or_update"}
    \/ normalizing'.pc \in {"get_power_issues: copied", "get_los_alarms: copied"}
       /\ normalizing'.pc # normalizing.pc
    \/ startup.pc = "store" /\ startup'.pc = "release"

\* C17: a thread is inside a block of the cache exactly while it holds the
\* lock, so at most one thread is inside; every read or write of a cache
\* dict is a step of the thread that holds the lock; and no thread issues a
\* store call (connect, execute, fetch, commit, rollback, the startup
\* query) while it holds the lock.
C17_LockDiscipline ==
    /\ [](\A t \in Threads : Inside(t) <=> lock = t)
    /\ [][/\ CacheAccess => (lock # None /\ lock' = lock /\ Inside(lock))
          /\ \A w \in Workers : StoreCallBy(w) => (lock # w /\ lock' # w)
          /\ (startup.pc = "query" /\ startup'.pc # "query") => lock # "main"]_vars

\* C17 witness: a worker is inside add_or_update with its transaction open
\* while another worker and the normalizer wait for the lock.
C17_Witness ==
    \E w, o \in Workers :
        /\ pc[w] = "add_or_update: locked" /\ lock = w /\ tx[w] # << >>
        /\ pc[o] = "in_unit" /\ IsClear(alarm[o])
        /\ normalizing.pc = "get_los_alarms"

\* Worker w is inside an invocation of handle_alarm_lifecycle.
Unfinished(w) == pc[w] \notin {"idle", "returned", "raised"}

\* Worker w cannot take its next step: it waits for the cache lock, or its
\* next statement waits for a row another transaction holds.
Blocked(w) ==
    \/ /\ pc[w] = "upserted" \/ (pc[w] = "in_unit" /\ IsClear(alarm[w]))
       /\ lock # None
    \/ /\ pc[w] = "in_unit" /\ ~IsClear(alarm[w]) /\ ~ReturnsInUnit(alarm[w])
       /\ ~RowFree(w, alarm[w].alarm_id)
    \/ /\ pc[w] = "evicted"
       /\ active_alarms[alarm[w].alarm_id] # NoRow
       /\ ~RowFree(w, alarm[w].alarm_id)

NormalizerBlocked ==
    normalizing.pc \in {"get_power_issues", "get_los_alarms"} /\ lock # None

\* Some thread inside an invocation can take a step, if any is inside one.
NoDeadlock ==
    ((\E w \in Workers : Unfinished(w)) \/ normalizing.pc # "idle")
        => \/ \E w \in Workers : Unfinished(w) /\ ~Blocked(w)
           \/ normalizing.pc # "idle" /\ ~NormalizerBlocked

\* C19: no reachable state has every unfinished thread blocked, and under
\* fair scheduling of the threads (a thread that stays able to step does
\* step; the lock itself is handed out in any order) every invocation of
\* handle_alarm_lifecycle among finitely many returns or raises and every
\* invocation of normalize_alarm among finitely many ends.
C19_DeadlockFreedom ==
    /\ []NoDeadlock
    /\ \A w \in Workers : Unfinished(w) ~> pc[w] \in {"returned", "raised"}
    /\ (normalizing.pc # "idle") ~> (normalizing.pc = "idle")

\* C19 witness: a worker holding the row of its upsert waits for the cache
\* lock the normalizer holds, while the other worker's upsert waits for
\* that row.
C19_Witness ==
    \E w, o \in Workers :
        /\ pc[w] = "upserted" /\ HoldsRow(w, alarm[w].alarm_id)
        /\ lock = "normalizer"
        /\ pc[o] = "in_unit" /\ Blocked(o) /\ ~IsClear(alarm[o])

\* A category of the cache as the mapping it is: alarm_id to payload.
Mapping(d) == {<<d[i].k, d[i].v>> : i \in 1..Len(d)}

\* What full_flow_main.py lines 134-135 would load from the active table.
Rebuilt(table, order) ==
    LET p == get_active_power_issues(table, order)
        l == get_active_los_alarms(table, order)
    IN  [power |-> load_power_issues(p, ObjAll(p)),
         los   |-> load_los_alarms(l, ObjAll(l))]

\* The categories hold what the startup queries would load, in whichever
\* order the rows come.
IsViewOf(power, los, table) ==
    \E order \in ScanOrders :
        /\ Mapping(power) = Mapping(Rebuilt(table, order).power)
        /\ Mapping(los) = Mapping(Rebuilt(table, order).los)

\* C18: events are handled one after the other; when an invocation that
\* found each category equal to what the startup queries would load has
\* returned normally, its unit committed if it had one, each category again
\* equals what the startup queries would load from the active table.
C18_CacheIsViewOfStore ==
    (/\ pc[SeqWorker] = "returned"
     /\ IsViewOf(pre[SeqWorker].power, pre[SeqWorker].los, pre[SeqWorker].active))
        => IsViewOf(active_power_issues, active_los_alarms, active_alarms)

\* The frames of cleanup on the stack of the main thread.
CleanupFrames == {i \in 1..Len(process.stack) : process.stack[i].fn = "cleanup"}

\* C20: however many times cleanup is invoked in the process (signal
\* handler, atexit hook, fatal-error path, a signal while cleanup runs),
\* delete_subscription is invoked at most once and token_mgr.revoke at most
\* once, and no step clears stop_event once it is set.
C20_CleanupIdempotent ==
    /\ [](process.deleted <= 1 /\ process.revoked <= 1)
    /\ [][process.stop_event => process'.stop_event]_vars

\* C20 witness: a signal arrived while cleanup, called on the fatal-error
\* path, was inside delete_subscription; the cleanup of the handler has
\* returned at line 33 and the handler is about to exit.
C20_Witness ==
    /\ process.main = "cleanup"
    /\ process.stack = <<Frame("cleanup", "delete_subscription"),
                         Frame("shutdown_handler", "sys.exit")>>
    /\ process.deleted = 1 /\ process.stop_event

=============================================================================
